---- MODULE Spec2Model ----
(***************************************************************************)
(* Forecast lifecycle, evaluation passes and worker single-instance lock   *)
(* of the dahab-ai pipeline (src/db/db.py, src/worker.py).                 *)
(*                                                                         *)
(* Time is counted in ticks of six hours: the evaluation window            *)
(* (max_window_hours = 6) is one tick, the expiry grace (24 h) four ticks, *)
(* the 12 h recommendation horizon two ticks.  Prices are integers; the    *)
(* percentage thresholds of the evaluator are compared by cross            *)
(* multiplication, so 0.1 % of 1000 is exactly 1.                          *)
(***************************************************************************)
EXTENDS Integers, Sequences, FiniteSets, TLC

\* ---------------------------------------------------------------- bounds
MaxTime == 7
MaxLimit == 2
MaxCycles == 1
\* rows of the store under Spec (one pass at a time, several forecasts)
MaxForecasts == 2
MaxPrices == 1
\* rows of the store under SpecSnap (one forecast, several snapshots)
SnapForecasts == 1
SnapPrices == 2
\* rows of the store under SpecRace (two passes at once)
RaceForecasts == 1
RacePrices == 1

\* cycles of the worker under SpecCycle (one worker, stages that fail)
CycleRuns == 2

\* rows of the store under SpecClock (a process whose local clock is not UTC)
ClockForecasts == 1
ClockPrices == 1
\* rows of the store under SpecGen (forecast generation from news)
GenNews == 1
GenForecasts == 3

\* largest requested cycle count under SpecRun
RunCycles == 2

\* outcomes recorded into one bucket under SpecCalib
CalibUpdates == 10
\* outcomes of a stream of only hits or only misses under SpecStream
StreamLen == 100

\* rows of evaluation_summary under SpecSummary
SumRows == 2
\* rows handed to compute_metrics under SpecScore
ScoreRows == 2

\* migrate_database runs on one file under SpecMig
MigRuns == 2

\* price snapshots of the store under SpecMalformed
MalPrices == 1
\* latest heartbeat time of a worker_status row under SpecAlive
AliveBeats == 3
\* forecasts created under SpecDue
DueForecasts == 2
\* outcome recordings under SpecStats
StatUpdates == 3
\* 'streamlit-worker' threads created under SpecSw
SwThreads == 3
\* links the feeds offer under SpecIng, and the insert_news calls made on them
IngUrls == 2
IngNews == 3
\* due forecasts of the store under SpecErrors
ErrForecasts == 3
\* forecasts of the store and the per-pass limit under SpecStarve (the limit
\* stands for the 500 of evaluate_due_forecasts)
StarveForecasts == 2
StarveLimit == 1

PriceVals == {995, 999, 1000, 1001, 1005}
Assets == {"Gold"}
Directions == {"UP", "DOWN", "NEUTRAL"}
Passes == {"stage", "manual"}
Workers == {"w1", "w2"}
\* page loads of the UI process that call ensure_worker_running
Sessions == {"s1", "s2"}
\* forecast-generation stages that can run at once: the stage of the current
\* cycle and a stage thread that was given up by join(timeout) and finishes late
GenRuns == {"stage", "late"}
\* RECOMMENDATION_HORIZONS keys a generation stage creates forecasts for
HorizonKeys == <<"12h", "24h">>
\* offsets of the local clock from UTC in ticks: UTC-12 to UTC+12
Offsets == {0 - 2, 0 - 1, 0, 1, 2}
\* analysis['confidence'] values, in tenths of a percent
BaseConfidences == {0 - 50, 0, 100, 249, 250, 350, 357, 500, 785, 850, 857, 1000, 1500}
\* analysis['impact_level'] values; "NONE" is any value other than the three levels
ImpactLevels == {"LOW", "MEDIUM", "HIGH", "NONE"}
\* analysis['sentiment'] values
Sentiments == {"positive", "negative", "neutral"}
\* ImpactEngine.CORRELATIONS entries for a (category, asset): <<>> when there is
\* none, else <<type, strength in tenths>>
Correlations ==
    {<<>>} \cup ({"direct", "positive", "negative", "variable"} \X {3, 5, 7, 10})
\* worker processes under SpecSched
SchedWorkers == {"w1"}
\* what a stage run by _run_step can do: return, raise, or outlive its budget
Outcomes == {"ok", "raise", "timeout"}
\* elapsed cycle durations in seconds, below and above the cycle interval
Durations == {10, 45}

\* ------------------------------------------------------ program constants
\* max_window_hours = 6, in six-hour ticks
MaxWindowTicks == 1
\* the 24 of  grace = max(24, int(max_window_hours) * 2), in six-hour ticks
GraceFloorTicks == 4
\* RECOMMENDATION_HORIZONS['12h'] = 12 * 60 minutes, in six-hour ticks
HorizonTicks == 2
\* number of stages started by one cycle of WorkerProcess.run
NumStages == 7

\* max_stale_seconds = 120 of is_worker_alive, rounded up to six-hour ticks
MaxStaleTicks == 1
\* WORKER_CYCLE_INTERVAL, seconds
CycleInterval == 30

\* the stages of one cycle of WorkerProcess.run, in the order they are started
StageOrder == <<"news", "prices", "forecast_eval", "forecasts",
                "trade_eval", "trade_monitor", "risk_limits">>

NULL == 0 - 1
NoSnap == [price |-> NULL, timestamp |-> NULL, quality |-> "none"]

\* a generation stage that is not running
IdleGen == [pc |-> "idle", items |-> <<>>, todo |-> <<>>, inserted |-> 0]

\* worker_status.last_error of a fresh store
NoError == <<>>

\* cycles arguments of WorkerProcess.run under SpecRun: None and 0..RunCycles
RunArgs == {NULL} \cup (0..RunCycles)

\* the calibration_stats row of a key that has none
NoRow == [n_total |-> 0, n_hit |-> 0, rolling_accuracy |-> NULL,
          weight_multiplier |-> NULL]
\* no outcome was recorded
NoStream == [kind |-> "mixed", start |-> NULL, n |-> 0, last |-> NULL]

\* stored confidences of evaluated forecasts in tenths of a percent, NULL for a
\* row without one
ScoreConfidences == {NULL, 0, 250, 850, 1000}

\* an empty-string TEXT value of a timestamp column
EMPTY == 0 - 2
\* a TEXT value of a timestamp column that is no ISO timestamp
GARBLED == 0 - 3
\* no database file is being migrated
NoMig == [db |-> <<>>, runs |-> 0, first |-> <<>>]

\* is_worker_alive was not called
NoAlive == [status |-> [row |-> FALSE, last_heartbeat |-> NULL, last_heartbeat_at |-> NULL],
            fails |-> FALSE, max_stale |-> 0, at |-> NULL, result |-> "none"]
\* an empty calibration_stats table, nothing read yet
NoStats == [rows |-> <<>>, updates |-> 0,
            read |-> [by |-> "none", ver |-> NULL, latest |-> NULL]]
\* no 'streamlit-worker' thread was created
NoThreads == <<>>
\* a news ingestion run that is not running
IdleIng == [pc |-> "idle", url |-> NULL, result |-> "none"]
\* news ingestion runs that can be under way at once: the news stage of the
\* WorkerProcess cycle and that of the StreamlitWorker loop
IngRuns == {"worker", "streamlit"}

\* compute_metrics was not called
NoScore == [rows |-> <<>>, calibration_score |-> NULL, done |-> FALSE]

\* get_calibration_weight was not called yet
NoRead == [calls |-> 0, failed |-> FALSE, stored |-> NULL, weight |-> NULL]

\* no _create_forecast call was made yet
NoConf == [base |-> 0, impact |-> "NONE", correlation |-> <<>>, sentiment |-> "neutral",
           direction |-> "null", confidence |-> NULL]

NoOutcomeYet == [stage |-> "none", cycle |-> 0, outcome |-> "none"]

NoCycleEnd == [elapsed |-> NULL, sleep_time |-> NULL, slept |-> FALSE]

VARIABLES
    now,          \* the store's UTC clock, in ticks
    forecasts,    \* table forecasts: sequence of rows, id = index
    prices,       \* table prices: sequence of rows, id = index
    calibration,  \* table calibration_stats: bucket key -> counters
    pass,         \* one record per concurrently running evaluation pass
    evalCalls,    \* history: update_forecast_evaluation calls per forecast id
    calibCalls,   \* history: _update_calibration_stats calls per forecast id
    wpc,          \* worker process position
    holds,        \* worker process holds the flock on worker.lock
    lockMeta,     \* content of worker.lock (pid written by the holder)
    hbThread,     \* worker process has a live heartbeat thread
    storeWrites,  \* history: kinds of store writes made by each worker process
    stagesRun,    \* history: number of stages started by each worker process
    attempts,     \* history: acquire attempts of each worker process
    heldAtStart,  \* history: another process held the lock when this one started
    cycle,        \* cycle_count of each worker process
    stage,        \* index of the next stage of the current cycle
    live,         \* table worker_status, the row with id = 1
    started,      \* history: stages started in the current cycle, in order
    inflight,     \* stage threads of each worker process that are still running
    lastOutcome,  \* history: stage, cycle and outcome of the last _run_step call
    cyclesDone,   \* history: end-of-cycle liveness updates of each worker process
    cycleEnd,     \* history: elapsed, sleep_time and slept of the last cycle end
    slRunning,    \* StreamlitWorker.running: the in-process scheduler loop is active
    uipc,         \* position of each page load inside ensure_worker_running
    tz,           \* offset of the process's local clock from UTC, in ticks
    news,         \* table news: sequence of rows, id = index
    gen,          \* one record per concurrently running forecast-generation stage
    conf,         \* inputs and result of the last Forecaster._create_forecast call
    cyclesArg,    \* the cycles argument of WorkerProcess.run, NULL for None
    bucket,       \* one row of table calibration_stats, NoRow while it is absent
    stream,       \* history: the outcomes recorded into bucket
    got,          \* history: the last get_calibration_weight call and its result
    summary,      \* table evaluation_summary: sequence of rows, id = index
    score,        \* rows handed to compute_metrics and the calibration_score returned
    mig,          \* a database file, the migrate_database runs on it and their results
    alive,        \* a worker_status row handed to is_worker_alive and the result
    stats,        \* table calibration_stats with its nullable key columns: rows
    swThreads,    \* position of each 'streamlit-worker' loop thread
    ing           \* one record per concurrently running news ingestion run

evalVars == <<now, forecasts, prices, calibration, pass, evalCalls, calibCalls>>
workerVars == <<wpc, holds, lockMeta, hbThread, storeWrites, stagesRun, attempts,
                heldAtStart, cycle, stage>>
cycleVars == <<live, started, inflight, lastOutcome, cyclesDone, cycleEnd>>
schedVars == <<slRunning, uipc>>
genVars == <<tz, news, gen, conf>>
runVars == <<cyclesArg>>
calibVars == <<bucket, stream, got>>
\* what the processes above leave alone
summaryVars == <<summary, score>>
migVars == <<mig>>
extraVars == <<alive, stats, swThreads, ing>>
restVars == <<runVars, calibVars, summaryVars, migVars, extraVars>>
\* what the store operations on forecasts and prices leave alone
nonStoreVars == <<workerVars, cycleVars, schedVars, genVars, restVars>>
\* what a worker process leaves alone
nonWorkerVars == <<evalVars, schedVars, genVars, restVars>>
vars == <<now, forecasts, prices, calibration, pass, evalCalls, calibCalls,
          wpc, holds, lockMeta, hbThread, storeWrites, stagesRun, attempts,
          heldAtStart, cycle, stage,
          live, started, inflight, lastOutcome, cyclesDone, cycleEnd,
          slRunning, uipc, tz, news, gen, conf, cyclesArg, bucket, stream, got, summary, score, mig,
          alive, stats, swThreads, ing>>

\* the variables that only the specifications of their own claims change
InitExtra ==
    /\ alive = NoAlive
    /\ stats = NoStats
    /\ swThreads = NoThreads
    /\ ing = [r \in IngRuns |-> IdleIng]

\* ------------------------------------------------------------ the store
BucketKeys == Assets \X {HorizonTicks}

IdlePass == [pc |-> "idle", due |-> <<>>, snap |-> NoSnap, evaluated |-> 0,
             errors |-> 0, logged |-> 0, failed |-> {}, all |-> <<>>]

PricesOf(P, asset) == {i \in DOMAIN P : P[i].asset = asset}

\* ORDER BY datetime(timestamp) DESC, id DESC LIMIT 1
GetLatestPrice(P, asset) ==
    LET S == PricesOf(P, asset)
    IN  IF S = {} THEN NoSnap
        ELSE LET i == CHOOSE i \in S : \A j \in S :
                          P[j].timestamp < P[i].timestamp
                          \/ (P[j].timestamp = P[i].timestamp /\ j <= i)
             IN  [price |-> P[i].price, timestamp |-> P[i].timestamp, quality |-> "approx"]

\* (mutant) ORDER BY ts DESC: the latest candidate instead of the earliest
FirstSnapshotDesc(P, S, quality) ==
    LET i == CHOOSE i \in S : \A j \in S :
                 P[j].timestamp < P[i].timestamp
                 \/ (P[j].timestamp = P[i].timestamp /\ j <= i)
    IN  [price |-> P[i].price, timestamp |-> P[i].timestamp, quality |-> quality]

\* ORDER BY ts ASC, id ASC LIMIT 1 over a candidate set
FirstSnapshot(P, S, quality) ==
    LET i == CHOOSE i \in S : \A j \in S :
                 P[i].timestamp < P[j].timestamp
                 \/ (P[i].timestamp = P[j].timestamp /\ i <= j)
    IN  [price |-> P[i].price, timestamp |-> P[i].timestamp, quality |-> quality]

GetPriceForEvaluation(P, asset, due_at, window) ==
    LET inWindow == {i \in PricesOf(P, asset) :
                        P[i].timestamp >= due_at /\ P[i].timestamp <= due_at + window}
        afterDue == {i \in PricesOf(P, asset) : P[i].timestamp >= due_at}
    IN  IF inWindow # {} THEN FirstSnapshot(P, inWindow, "exact")
        ELSE IF afterDue # {} THEN FirstSnapshot(P, afterDue, "approx")
        ELSE GetLatestPrice(P, asset)

\* --------------------------------------------------- forecast operations
\* _sql_dt_expr: datetime(replace(substr(column,1,19),'T',' ')), NULL for a text
\* that is no timestamp
SqlDatetime(x) == IF x >= 0 THEN x ELSE NULL

\* (mutant) the due query without its status and evaluated_at filters
IsDueAnyStatus(f, t) ==
    /\ f.due_at # NULL
    /\ f.due_at <= t

\* status = 'active' AND (evaluated_at IS NULL OR evaluated_at = '')
\* AND due_at IS NOT NULL AND datetime(due_at) <= datetime('now')
IsDue(f, t) ==
    /\ f.status = "active"
    /\ f.evaluated_at = NULL
    /\ f.due_at # NULL
    /\ f.due_at # EMPTY
    /\ SqlDatetime(f.due_at) # NULL
    /\ SqlDatetime(f.due_at) <= t

\* ORDER BY datetime(due_at) ASC, id ASC
RECURSIVE OrderByDue(_, _)
OrderByDue(F, S) ==
    IF S = {} THEN <<>>
    ELSE LET m == CHOOSE i \in S : \A j \in S :
                      F[i].due_at < F[j].due_at
                      \/ (F[i].due_at = F[j].due_at /\ i <= j)
         IN  <<m>> \o OrderByDue(F, S \ {m})

GetForecastsDue(F, t) == OrderByDue(F, {i \in DOMAIN F : IsDue(F[i], t)})

\* if limit and len(due) > int(limit): due = due[: int(limit)]
LimitDue(due, limit) ==
    IF limit # 0 /\ Len(due) > limit THEN SubSeq(due, 1, limit) ELSE due

\* price0 is None or '' -> skipped ; price0 <= 0 -> skipped
PriceUsable(f) == f.price_at_forecast # NULL /\ f.price_at_forecast > 0

\* grace = max(24, int(max_window_hours) * 2)
Grace(window) == IF GraceFloorTicks > window * 2 THEN GraceFloorTicks ELSE window * 2

\* pct_move > 0.1 -> UP ; pct_move < -0.1 -> DOWN ; else NEUTRAL
\* (pct_move = (actual - price0) / price0 * 100, price0 > 0)
ActualDirection(actual, price0) ==
    IF (actual - price0) * 1000 > price0 THEN "UP"
    ELSE IF (actual - price0) * 1000 < 0 - price0 THEN "DOWN"
    ELSE "NEUTRAL"

AbsVal(x) == IF x < 0 THEN 0 - x ELSE x

\* (mutant) NEUTRAL judged by the 0.1 % dead-zone alone
IsHitDeadZoneOnly(expected, actual, price0) ==
    expected = ActualDirection(actual, price0)

\* expected == actual_direction, or expected NEUTRAL and abs(pct_move) < 0.5
IsHit(expected, actual, price0) ==
    \/ expected = ActualDirection(actual, price0)
    \/ (expected = "NEUTRAL" /\ AbsVal(actual - price0) * 200 < price0)

\* the eval_data dict built by evaluate_due_forecasts_backfill
EvalData(f, snap, t) ==
    LET hit == IsHit(f.direction, snap.price, f.price_at_forecast)
    IN  [evaluation_result  |-> IF hit THEN "hit" ELSE "miss",
         actual_direction   |-> ActualDirection(snap.price, f.price_at_forecast),
         actual_price       |-> snap.price,
         actual_time        |-> snap.timestamp,
         direction_correct  |-> hit,
         evaluation_quality |-> snap.quality,
         evaluated_at       |-> t]

\* UPDATE forecasts SET status = 'expired', expired_at = ?, evaluation_quality = ? WHERE id = ?
ExpireForecast(F, id, reason, t) ==
    [F EXCEPT ![id] = [@ EXCEPT !.status = "expired",
                                !.expired_at = t,
                                !.evaluation_quality = reason]]

\* UPDATE forecasts SET status = 'evaluated', ... WHERE id = ?
UpdateForecastRow(F, id, ed) ==
    [F EXCEPT ![id] = [@ EXCEPT !.status = "evaluated",
                                !.evaluation_result = ed.evaluation_result,
                                !.actual_direction = ed.actual_direction,
                                !.actual_price = ed.actual_price,
                                !.actual_time = ed.actual_time,
                                !.direction_correct = IF ed.direction_correct THEN 1 ELSE 0,
                                !.evaluation_quality = ed.evaluation_quality,
                                !.evaluated_at = ed.evaluated_at]]

BucketOf(f) == <<f.asset, f.horizon_minutes>>

\* n_total + 1, n_hit + hit, INSERT OR REPLACE
UpdateCalibrationStats(C, f, ed) ==
    IF f.horizon_minutes = NULL THEN C
    ELSE
    [C EXCEPT ![BucketOf(f)] = [n_total |-> @.n_total + 1,
                                n_hit   |-> @.n_hit + (IF ed.direction_correct THEN 1 ELSE 0)]]

\* update_forecast_evaluation: the row update, then the calibration update
UpdateForecastEvaluation(F, C, id, ed) ==
    LET F2 == UpdateForecastRow(F, id, ed)
    IN  [F |-> F2, C |-> UpdateCalibrationStats(C, F2[id], ed)]

\* the part of one loop iteration after get_price_for_evaluation returned snap
EvaluateOne(F, C, id, snap, window, t) ==
    IF snap.price = NULL
    THEN [F |-> IF F[id].due_at # NULL /\ t - F[id].due_at > Grace(window)
                THEN ExpireForecast(F, id, "missing_price", t) ELSE F,
          C |-> C, evaluated |-> 0]
    ELSE LET r == UpdateForecastEvaluation(F, C, id, EvalData(F[id], snap, t))
         IN  [F |-> r.F, C |-> r.C, evaluated |-> 1]

\* the loop of evaluate_due_forecasts_backfill run to its end with nothing interleaved
RECURSIVE RunLoop(_, _, _, _, _, _)
RunLoop(F, C, P, due, window, t) ==
    IF due = <<>> THEN [F |-> F, C |-> C, evaluated |-> 0]
    ELSE LET id == Head(due)
         IN  IF ~PriceUsable(F[id]) THEN RunLoop(F, C, P, Tail(due), window, t)
             ELSE LET one  == EvaluateOne(F, C, id,
                                  GetPriceForEvaluation(P, F[id].asset, F[id].due_at, window),
                                  window, t)
                      rest == RunLoop(one.F, one.C, P, Tail(due), window, t)
                  IN  [F |-> rest.F, C |-> rest.C,
                       evaluated |-> one.evaluated + rest.evaluated]

\* evaluate_due_forecasts_backfill(max_window_hours, limit) as one sequential call
EvaluateDueForecastsBackfill(F, C, P, window, limit, t) ==
    RunLoop(F, C, P, LimitDue(GetForecastsDue(F, t), limit), window, t)

\* ------------------------------------------------------------- actions
NoText == "null"

\* a row as insert_forecast stores it: status defaults to 'active', no outcome
NewForecast(asset, direction, price0, t) ==
    [news_id |-> NULL, asset |-> asset, direction |-> direction,
     horizon_minutes |-> HorizonTicks, horizon_key |-> "12h",
     created_at |-> t, due_at |-> t + HorizonTicks, price_at_forecast |-> price0,
     status |-> "active", evaluation_result |-> NoText, actual_direction |-> NoText,
     actual_price |-> NULL, actual_time |-> NULL, direction_correct |-> NULL,
     evaluation_quality |-> NoText, evaluated_at |-> NULL, expired_at |-> NULL]

\* the clock advances
Tick ==
    /\ now < MaxTime
    /\ now' = now + 1
    /\ UNCHANGED <<forecasts, prices, calibration, pass, evalCalls, calibCalls>>
    /\ UNCHANGED nonStoreVars

\* insert_price: a snapshot stamped with the store's UTC now
InsertPrice(asset, price, maxP) ==
    /\ Len(prices) < maxP
    /\ prices' = Append(prices, [asset |-> asset, price |-> price, timestamp |-> now])
    /\ UNCHANGED <<now, forecasts, calibration, pass, evalCalls, calibCalls>>
    /\ UNCHANGED nonStoreVars

\* the price_data a generation stage hands to the forecaster: the latest stored
\* snapshot (None when there is none), or a quote still in MarketData.price_cache,
\* which is filled before insert_price runs and stays when that insert fails
CurrentPrices(P, asset, quotes) == {GetLatestPrice(P, asset).price} \cup quotes

\* datetime.now(): the naive local time of the process
LocalNow == now + tz

\* Forecaster._create_forecast + insert_forecast: created_at and due_at are local
\* times
InsertForecast(asset, direction, price0, maxF) ==
    /\ Len(forecasts) < maxF
    /\ forecasts' = Append(forecasts, NewForecast(asset, direction, price0, LocalNow))
    /\ evalCalls' = Append(evalCalls, 0)
    /\ calibCalls' = Append(calibCalls, 0)
    /\ UNCHANGED <<now, prices, calibration, pass>>
    /\ UNCHANGED nonStoreVars

NextPc(due) == IF due = <<>> THEN "done" ELSE "fetch"

\* evaluate_due_forecasts_backfill, lines 1684-1690: read and truncate the due list
StartPass(p, limit) ==
    /\ pass[p].pc = "idle"
    /\ LET due == LimitDue(GetForecastsDue(forecasts, now), limit)
       IN  pass' = [pass EXCEPT ![p] = [pc |-> NextPc(due), due |-> due, snap |-> NoSnap,
                                        evaluated |-> 0, errors |-> 0, logged |-> 0,
                                        failed |-> {}, all |-> due]]
    /\ UNCHANGED <<now, forecasts, prices, calibration, evalCalls, calibCalls>>
    /\ UNCHANGED nonStoreVars

\* lines 1692-1708: the price0 checks and get_price_for_evaluation for the next item
FetchPrice(p) ==
    /\ pass[p].pc = "fetch"
    /\ LET id == Head(pass[p].due)
           f  == forecasts[id]
       IN  IF ~PriceUsable(f)
           THEN pass' = [pass EXCEPT ![p].due = Tail(@),
                                     ![p].pc = NextPc(Tail(pass[p].due))]
           ELSE pass' = [pass EXCEPT ![p].snap =
                                         GetPriceForEvaluation(prices, f.asset, f.due_at,
                                                               MaxWindowTicks),
                                     ![p].pc = "write"]
    /\ UNCHANGED <<now, forecasts, prices, calibration, evalCalls, calibCalls>>
    /\ UNCHANGED nonStoreVars

\* lines 1709-1785: expire or skip when there is no snapshot, else
\* update_forecast_evaluation
WriteOutcome(p) ==
    /\ pass[p].pc = "write"
    /\ LET id == Head(pass[p].due)
           r  == EvaluateOne(forecasts, calibration, id, pass[p].snap, MaxWindowTicks, now)
       IN  /\ forecasts' = r.F
           /\ calibration' = r.C
           /\ evalCalls' = [evalCalls EXCEPT ![id] = @ + r.evaluated]
           /\ calibCalls' = [calibCalls EXCEPT ![id] = @ + r.evaluated]
           /\ pass' = [pass EXCEPT ![p].due = Tail(@),
                                   ![p].snap = NoSnap,
                                   ![p].evaluated = @ + r.evaluated,
                                   ![p].pc = NextPc(Tail(pass[p].due))]
    /\ UNCHANGED <<now, prices>>
    /\ UNCHANGED nonStoreVars

\* (mutant) the exception leaves the loop: the rest of the due list is dropped
AfterErrorAbort(ps, logged) ==
    [ps EXCEPT !.due = <<>>, !.snap = NoSnap, !.errors = @ + 1,
               !.logged = @ + (IF logged THEN 1 ELSE 0),
               !.failed = @ \cup {Head(ps.due)}, !.pc = "done"]

\* lines 1786-1792: the except branch of one loop iteration: errors += 1, the
\* log call in its own try, continue
AfterError(ps, logged) ==
    [ps EXCEPT !.due = Tail(@), !.snap = NoSnap, !.errors = @ + 1,
               !.logged = @ + (IF logged THEN 1 ELSE 0),
               !.failed = @ \cup {Head(ps.due)}, !.pc = NextPc(Tail(ps.due))]

\* lines 1692-1708: float(price0) or get_price_for_evaluation raises for the next
\* item; logged tells whether the log write of the handler went through
FetchPriceFails(p, logged) ==
    /\ pass[p].pc = "fetch"
    /\ pass' = [pass EXCEPT ![p] = AfterError(@, logged)]
    /\ UNCHANGED <<now, forecasts, prices, calibration, evalCalls, calibCalls>>
    /\ UNCHANGED nonStoreVars

\* line 1785: update_forecast_evaluation raises before its commit (the database
\* is locked): no field of the row is written
WriteOutcomeFails(p, logged) ==
    /\ pass[p].pc = "write"
    /\ pass[p].snap.price # NULL
    /\ pass' = [pass EXCEPT ![p] = AfterError(@, logged)]
    /\ UNCHANGED <<now, forecasts, prices, calibration, evalCalls, calibCalls>>
    /\ UNCHANGED nonStoreVars

\* line 1684: get_forecasts_due raises; Evaluator.evaluate_due_forecasts catches
\* the exception and returns 0
StartPassFails(p) ==
    /\ pass[p].pc = "idle"
    /\ pass' = [pass EXCEPT ![p].pc = "done"]
    /\ UNCHANGED <<now, forecasts, prices, calibration, evalCalls, calibCalls>>
    /\ UNCHANGED nonStoreVars

\* lines 1794-1799: the counts are returned to the caller
ReturnPass(p) ==
    /\ pass[p].pc = "done"
    /\ pass' = [pass EXCEPT ![p] = IdlePass]
    /\ UNCHANGED <<now, forecasts, prices, calibration, evalCalls, calibCalls>>
    /\ UNCHANGED nonStoreVars

InitStore ==
    /\ now = 0
    /\ forecasts = <<>>
    /\ prices = <<>>
    /\ calibration = [k \in BucketKeys |-> [n_total |-> 0, n_hit |-> 0]]
    /\ pass = [p \in Passes |-> IdlePass]
    /\ evalCalls = <<>>
    /\ calibCalls = <<>>

\* everything but the position of the worker processes
InitProcesses ==
    /\ slRunning = FALSE
    /\ uipc = [s \in Sessions |-> "idle"]
    /\ tz = 0
    /\ news = <<>>
    /\ gen = [r \in GenRuns |-> IdleGen]
    /\ cyclesArg = NULL
    /\ bucket = NoRow
    /\ stream = NoStream
    /\ got = NoRead
    /\ summary = <<>>
    /\ score = NoScore
    /\ mig = NoMig
    /\ InitExtra
    /\ conf = NoConf
    /\ holds = [w \in Workers |-> FALSE]
    /\ lockMeta = "none"
    /\ hbThread = [w \in Workers |-> FALSE]
    /\ storeWrites = [w \in Workers |-> {}]
    /\ stagesRun = [w \in Workers |-> 0]
    /\ attempts = [w \in Workers |-> 0]
    /\ heldAtStart = [w \in Workers |-> FALSE]
    /\ cycle = [w \in Workers |-> 0]
    /\ stage = [w \in Workers |-> 0]
    /\ live = [last_heartbeat |-> NULL, last_cycle_seconds |-> NULL,
               last_successful_cycle_at |-> NULL, last_error |-> NoError,
               updated_at |-> NULL]
    /\ started = [w \in Workers |-> <<>>]
    /\ inflight = [w \in Workers |-> {}]
    /\ lastOutcome = [w \in Workers |-> NoOutcomeYet]
    /\ cyclesDone = [w \in Workers |-> 0]
    /\ cycleEnd = [w \in Workers |-> NoCycleEnd]

\* the worker processes have been launched (python worker.py)
InitWorkers ==
    /\ wpc = [w \in Workers |-> "new"]
    /\ InitProcesses

Init == InitStore /\ InitWorkers

\* the evaluation passes of the given callers
PassNext(passes) ==
    \/ \E p \in passes, limit \in 0..MaxLimit : StartPass(p, limit)
    \/ \E p \in passes : FetchPrice(p)
    \/ \E p \in passes : WriteOutcome(p)
    \/ \E p \in passes : ReturnPass(p)

\* the store with the given evaluation passes running on it
StoreNext(passes, directions, quotes, maxF, maxP) ==
    \/ Tick
    \/ \E a \in Assets, v \in quotes : InsertPrice(a, v, maxP)
    \/ \E a \in Assets, d \in directions :
           \E v \in CurrentPrices(prices, a, quotes) : InsertForecast(a, d, v, maxF)
    \/ PassNext(passes)

\* one evaluation pass at a time (a single scheduler, no late stage thread)
Next == StoreNext({"stage"}, {"UP"}, {1000}, MaxForecasts, MaxPrices)

Spec == Init /\ [][Next]_vars

\* one forecast and several snapshots of its asset
NextSnap == StoreNext({"stage"}, {"UP"}, {1000}, SnapForecasts, SnapPrices)

SpecSnap == Init /\ [][NextSnap]_vars

\* the forecast_eval stage together with a second pass: a timed-out stage thread
\* still running, the StreamlitWorker loop, or 'Run evaluation now'
NextRace == StoreNext(Passes, {"UP"}, {1000}, RaceForecasts, RacePrices)

SpecRace == Init /\ [][NextRace]_vars

\* one due forecast of every direction and entry price with one snapshot at its
\* due time, evaluated by one pass
InitOutcome ==
    /\ now = HorizonTicks
    /\ \E a \in Assets, d \in Directions, p0 \in PriceVals, v \in PriceVals :
           /\ forecasts = <<NewForecast(a, d, p0, 0)>>
           /\ prices = <<[asset |-> a, price |-> v, timestamp |-> HorizonTicks]>>
    /\ calibration = [k \in BucketKeys |-> [n_total |-> 0, n_hit |-> 0]]
    /\ pass = [p \in Passes |-> IdlePass]
    /\ evalCalls = <<0>>
    /\ calibCalls = <<0>>
    /\ InitWorkers

NextOutcome == PassNext({"stage"})

SpecOutcome == InitOutcome /\ [][NextOutcome]_vars

\* a store that holds a forecast with a malformed due_at or horizon_minutes (a
\* legacy or hand-made row) next to a well-formed one
InitMalformed ==
    /\ now = 0
    /\ \E due \in {NULL, EMPTY, GARBLED, HorizonTicks}, hm \in {NULL, HorizonTicks} :
           /\ due \in {NULL, EMPTY, GARBLED} \/ hm = NULL
           /\ forecasts = <<[NewForecast("Gold", "UP", 1000, 0) EXCEPT
                                 !.due_at = due, !.horizon_minutes = hm],
                             NewForecast("Gold", "UP", 1000, 0)>>
    /\ prices = <<>>
    /\ calibration = [k \in BucketKeys |-> [n_total |-> 0, n_hit |-> 0]]
    /\ pass = [p \in Passes |-> IdlePass]
    /\ evalCalls = <<0, 0>>
    /\ calibCalls = <<0, 0>>
    /\ InitWorkers

NextMalformed ==
    \/ Tick
    \/ \E v \in {1000, 1005} : InsertPrice("Gold", v, MalPrices)
    \/ PassNext({"stage"})

SpecMalformed == InitMalformed /\ [][NextMalformed]_vars

\* due forecasts that each have a snapshot at their due time, evaluated by passes
\* in which single items fail
InitErrors ==
    /\ now = HorizonTicks
    /\ forecasts = [i \in 1..ErrForecasts |-> NewForecast("Gold", "UP", 1000, 0)]
    /\ prices = <<[asset |-> "Gold", price |-> 1005, timestamp |-> HorizonTicks]>>
    /\ calibration = [k \in BucketKeys |-> [n_total |-> 0, n_hit |-> 0]]
    /\ pass = [p \in Passes |-> IdlePass]
    /\ evalCalls = [i \in 1..ErrForecasts |-> 0]
    /\ calibCalls = [i \in 1..ErrForecasts |-> 0]
    /\ InitWorkers

NextErrors ==
    \/ Tick
    \/ PassNext({"stage"})
    \/ StartPassFails("stage")
    \/ \E logged \in BOOLEAN : FetchPriceFails("stage", logged)
    \/ \E logged \in BOOLEAN : WriteOutcomeFails("stage", logged)

SpecErrors == InitErrors /\ [][NextErrors]_vars

\* forecasts that were stored without a usable price_at_forecast (no price at
\* creation time) ahead, in due order, of one with a price; the store holds a
\* snapshot taken at or after their due time
InitStarve ==
    /\ \E p0 \in {NULL, 0}, ahead \in 0..(StarveForecasts - 1) :
           forecasts = [i \in 1..StarveForecasts |->
                           NewForecast("Gold", "UP", IF i <= ahead THEN p0 ELSE 1000, 0)]
    /\ \E v \in {1000, 1005}, ts \in HorizonTicks..(HorizonTicks + 2) :
           /\ now = ts
           /\ prices = <<[asset |-> "Gold", price |-> v, timestamp |-> ts]>>
    /\ calibration = [k \in BucketKeys |-> [n_total |-> 0, n_hit |-> 0]]
    /\ pass = [p \in Passes |-> IdlePass]
    /\ evalCalls = [i \in 1..StarveForecasts |-> 0]
    /\ calibCalls = [i \in 1..StarveForecasts |-> 0]
    /\ InitWorkers

\* the forecast_eval stage of every cycle: evaluate_due_forecasts with its limit
StarvePass ==
    \/ StartPass("stage", StarveLimit)
    \/ FetchPrice("stage")
    \/ WriteOutcome("stage")
    \/ ReturnPass("stage")

NextStarve ==
    \/ Tick
    \/ StarvePass

\* the scheduler keeps running cycles, so a pass that can take a step takes it
SpecStarve == InitStarve /\ [][NextStarve]_vars /\ WF_vars(StarvePass)

\* ------------------------------------------------------- worker processes
\* stages whose thread may raise or outlive its budget
FlakyStages == {"prices"}

\* (mutant) a lock request that never conflicts (a shared instead of an exclusive lock)
FlockShared(w) == TRUE

\* fcntl.flock(fd, LOCK_EX | LOCK_NB) / msvcrt.locking(fd, LK_NBLCK, 1): granted
\* iff no other process holds the lock, never waits
FlockGranted(w) == \A v \in Workers \ {w} : ~holds[v]

\* (mutant) the periodic form writes its cycle_seconds argument as well
UpdateWorkerHeartbeatClobber(L, t, cycle_seconds) ==
    [L EXCEPT !.last_heartbeat = t, !.last_cycle_seconds = cycle_seconds,
              !.updated_at = t]

\* update_worker_heartbeat: the periodic form (cycle_seconds None) and the
\* cycle-boundary form
UpdateWorkerHeartbeat(L, t, cycle_seconds) ==
    IF cycle_seconds = NULL
    THEN [L EXCEPT !.last_heartbeat = t, !.updated_at = t]
    ELSE [L EXCEPT !.last_heartbeat = t, !.last_cycle_seconds = cycle_seconds,
                   !.updated_at = t]

UpdateWorkerSuccess(L, t, cycle_seconds) ==
    [L EXCEPT !.last_successful_cycle_at = t, !.last_cycle_seconds = cycle_seconds,
              !.updated_at = t]

UpdateWorkerLastError(L, t, error_message) ==
    [L EXCEPT !.last_error = error_message, !.updated_at = t]

\* (mutant) the interval minus the elapsed time, not clamped at 0
SleepTimeUnclamped(elapsed) == CycleInterval - elapsed

\* sleep_time = max(WORKER_CYCLE_INTERVAL - cycle_duration, 0)
SleepTime(elapsed) ==
    IF CycleInterval - elapsed > 0 THEN CycleInterval - elapsed ELSE 0

\* (mutant) an exception of the stage escapes _run_step into the except branch of
\* the cycle, which abandons the rest of the cycle
StepResumeRaise(outcome) == IF outcome = "raise" THEN "loop" ELSE "cycle"

\* _run_step returns to the cycle whatever the stage did: _target catches the
\* exception, join(timeout) gives up on a stage that is still running
StepResume(outcome) == "cycle"

\* WorkerProcess.__init__: get_db() builds the Database of a fresh process, which
\* logs its schema summary and rewrites the db_meta news_count row
Construct(w) ==
    /\ wpc[w] = "new"
    /\ wpc' = [wpc EXCEPT ![w] = "constructed"]
    /\ storeWrites' = [storeWrites EXCEPT ![w] = @ \cup {"log_schema_summary", "db_meta"}]
    /\ heldAtStart' = [heldAtStart EXCEPT ![w] = \E v \in Workers \ {w} : holds[v]]
    /\ UNCHANGED <<holds, lockMeta, hbThread, stagesRun, attempts, cycle, stage>>
    /\ UNCHANGED <<nonWorkerVars, cycleVars>>

\* WorkerProcess.run, lines 221-228 with _SingleInstanceLock.acquire
Acquire(w) ==
    /\ wpc[w] = "constructed"
    /\ attempts' = [attempts EXCEPT ![w] = @ + 1]
    /\ IF FlockGranted(w)
       THEN /\ holds' = [holds EXCEPT ![w] = TRUE]
            /\ lockMeta' = w
            /\ wpc' = [wpc EXCEPT ![w] = "locked"]
            /\ UNCHANGED storeWrites
       ELSE /\ wpc' = [wpc EXCEPT ![w] = "denied"]
            /\ storeWrites' = [storeWrites EXCEPT ![w] = @ \cup {"log_another_instance"}]
            /\ UNCHANGED <<holds, lockMeta>>
    /\ UNCHANGED <<hbThread, stagesRun, heldAtStart, cycle, stage>>
    /\ UNCHANGED <<nonWorkerVars, cycleVars>>

\* lines 230-237: start the heartbeat thread, log the start
StartLoop(w) ==
    /\ wpc[w] = "locked"
    /\ hbThread' = [hbThread EXCEPT ![w] = TRUE]
    /\ storeWrites' = [storeWrites EXCEPT ![w] = @ \cup {"heartbeat", "log_started"}]
    /\ live' = UpdateWorkerHeartbeat(live, now, NULL)
    /\ wpc' = [wpc EXCEPT ![w] = "loop"]
    /\ UNCHANGED <<holds, lockMeta, stagesRun, attempts, heldAtStart, cycle, stage>>
    /\ UNCHANGED <<started, inflight, lastOutcome, cyclesDone, cycleEnd>>
    /\ UNCHANGED nonWorkerVars

\* _start_heartbeat_thread._loop: one periodic heartbeat
Heartbeat(w) ==
    /\ hbThread[w]
    /\ live' = UpdateWorkerHeartbeat(live, now, NULL)
    /\ UNCHANGED <<started, inflight, lastOutcome, cyclesDone, cycleEnd>>
    /\ UNCHANGED <<nonWorkerVars, workerVars>>

\* lines 247-256: a new cycle begins with a heartbeat
BeginCycle(w, maxC) ==
    /\ wpc[w] = "loop"
    /\ cycle[w] < maxC
    /\ cycle' = [cycle EXCEPT ![w] = @ + 1]
    /\ stage' = [stage EXCEPT ![w] = 0]
    /\ started' = [started EXCEPT ![w] = <<>>]
    /\ live' = UpdateWorkerHeartbeat(live, now, NULL)
    /\ wpc' = [wpc EXCEPT ![w] = "cycle"]
    /\ UNCHANGED <<holds, lockMeta, hbThread, storeWrites, stagesRun, attempts, heldAtStart>>
    /\ UNCHANGED <<inflight, lastOutcome, cyclesDone, cycleEnd>>
    /\ UNCHANGED nonWorkerVars

\* _run_step, lines 176-184: the next stage of lines 263-269 is started in a
\* thread of its own and the cycle waits for it in join(timeout)
StartStep(w) ==
    /\ wpc[w] = "cycle"
    /\ stage[w] < NumStages
    /\ stage' = [stage EXCEPT ![w] = @ + 1]
    /\ stagesRun' = [stagesRun EXCEPT ![w] = @ + 1]
    /\ started' = [started EXCEPT ![w] = Append(@, StageOrder[stage[w] + 1])]
    /\ inflight' = [inflight EXCEPT ![w] = @ \cup {StageOrder[stage[w] + 1]}]
    /\ storeWrites' = [storeWrites EXCEPT ![w] = @ \cup {"stage"}]
    /\ wpc' = [wpc EXCEPT ![w] = "join"]
    /\ UNCHANGED <<holds, lockMeta, hbThread, attempts, heldAtStart, cycle>>
    /\ UNCHANGED <<live, lastOutcome, cyclesDone, cycleEnd>>
    /\ UNCHANGED nonWorkerVars

\* _run_step, lines 184-206: the join returns; a stage still alive is logged as
\* timed out, a stage that raised is logged and recorded in last_error
JoinStep(w, outcome) ==
    /\ wpc[w] = "join"
    /\ LET name == StageOrder[stage[w]]
       IN  /\ lastOutcome' = [lastOutcome EXCEPT ![w] =
                                 [stage |-> name, cycle |-> cycle[w], outcome |-> outcome]]
           /\ inflight' = [inflight EXCEPT ![w] =
                              IF outcome = "timeout" THEN @ ELSE @ \ {name}]
           /\ storeWrites' = [storeWrites EXCEPT ![w] =
                                 IF outcome = "timeout" THEN @ \cup {"log_step_timeout"}
                                 ELSE IF outcome = "raise" THEN @ \cup {"log_step_error"}
                                 ELSE @]
           /\ live' = IF outcome = "raise"
                      THEN UpdateWorkerLastError(live, now, <<name, "raise">>)
                      ELSE live
    /\ wpc' = [wpc EXCEPT ![w] = StepResume(outcome)]
    /\ UNCHANGED <<holds, lockMeta, hbThread, stagesRun, attempts, heldAtStart, cycle, stage>>
    /\ UNCHANGED <<started, cyclesDone, cycleEnd>>
    /\ UNCHANGED nonWorkerVars

\* a stage thread given up by join(timeout) finishes later
LateFinish(w, name) ==
    /\ wpc[w] \in {"loop", "cycle", "join"}
    /\ name \in inflight[w]
    /\ ~(wpc[w] = "join" /\ name = StageOrder[stage[w]])
    /\ inflight' = [inflight EXCEPT ![w] = @ \ {name}]
    /\ UNCHANGED <<live, started, lastOutcome, cyclesDone, cycleEnd>>
    /\ UNCHANGED <<nonWorkerVars, workerVars>>

\* the liveness update of lines 271-285
EndOfCycleUpdate(L, t, elapsed) ==
    UpdateWorkerSuccess(UpdateWorkerHeartbeat(L, t, elapsed), t, elapsed)

\* lines 271-291: liveness update, then sleep until the next cycle
EndCycleSleep(w, elapsed) ==
    /\ wpc[w] = "cycle"
    /\ stage[w] = NumStages
    /\ live' = EndOfCycleUpdate(live, now, elapsed)
    /\ cyclesDone' = [cyclesDone EXCEPT ![w] = @ + 1]
    /\ cycleEnd' = [cycleEnd EXCEPT ![w] = [elapsed |-> elapsed,
                                            sleep_time |-> SleepTime(elapsed),
                                            slept |-> TRUE]]
    /\ wpc' = [wpc EXCEPT ![w] = "loop"]
    /\ UNCHANGED <<holds, lockMeta, hbThread, storeWrites, stagesRun, attempts,
                   heldAtStart, cycle, stage>>
    /\ UNCHANGED <<started, inflight, lastOutcome>>
    /\ UNCHANGED nonWorkerVars

\* lines 271-289 and 304-312: liveness update; the requested cycle count is
\* reached; stop the heartbeat thread, release the lock, return
EndCycleExit(w, elapsed) ==
    /\ wpc[w] = "cycle"
    /\ stage[w] = NumStages
    /\ live' = EndOfCycleUpdate(live, now, elapsed)
    /\ cyclesDone' = [cyclesDone EXCEPT ![w] = @ + 1]
    /\ cycleEnd' = [cycleEnd EXCEPT ![w] = [elapsed |-> elapsed,
                                            sleep_time |-> SleepTime(elapsed),
                                            slept |-> FALSE]]
    /\ hbThread' = [hbThread EXCEPT ![w] = FALSE]
    /\ holds' = [holds EXCEPT ![w] = FALSE]
    /\ storeWrites' = [storeWrites EXCEPT ![w] = @ \cup {"log_exiting"}]
    /\ wpc' = [wpc EXCEPT ![w] = "exited"]
    /\ inflight' = [inflight EXCEPT ![w] = {}]
    /\ UNCHANGED <<lockMeta, stagesRun, attempts, heldAtStart, cycle, stage>>
    /\ UNCHANGED <<started, lastOutcome>>
    /\ UNCHANGED nonWorkerVars

\* _shutdown_handler: log, stop the heartbeat thread, release the lock, sys.exit(0);
\* the daemon stage threads end with the process
ShutdownHandler(w) ==
    /\ wpc[w] \in {"constructed", "locked", "loop", "cycle", "join"}
    /\ hbThread' = [hbThread EXCEPT ![w] = FALSE]
    /\ holds' = [holds EXCEPT ![w] = FALSE]
    /\ storeWrites' = [storeWrites EXCEPT ![w] = @ \cup {"log_shutdown"}]
    /\ wpc' = [wpc EXCEPT ![w] = "exited"]
    /\ inflight' = [inflight EXCEPT ![w] = {}]
    /\ UNCHANGED <<lockMeta, stagesRun, attempts, heldAtStart, cycle, stage>>
    /\ UNCHANGED <<live, started, lastOutcome, cyclesDone, cycleEnd>>
    /\ UNCHANGED nonWorkerVars

\* what the current stage of w can do
OutcomesOf(w) ==
    IF StageOrder[stage[w]] \in FlakyStages THEN Outcomes ELSE {"ok"}

\* the worker processes workers, each running at most maxC cycles
WorkerNext(workers, maxC) ==
    \E w \in workers :
        \/ Construct(w)
        \/ Acquire(w)
        \/ StartLoop(w)
        \/ Heartbeat(w)
        \/ BeginCycle(w, maxC)
        \/ StartStep(w)
        \/ \E o \in Outcomes : wpc[w] = "join" /\ o \in OutcomesOf(w) /\ JoinStep(w, o)
        \/ \E name \in FlakyStages : LateFinish(w, name)
        \/ \E e \in Durations : EndCycleSleep(w, e)
        \/ \E e \in Durations : EndCycleExit(w, e)
        \/ ShutdownHandler(w)

\* two worker processes started against the same lock file
NextWorker == WorkerNext(Workers, MaxCycles)

SpecWorker == Init /\ [][NextWorker]_vars

\* one worker process with a stage that fails, and the clock
NextCycle == Tick \/ WorkerNext({"w1"}, CycleRuns)

SpecCycle == Init /\ [][NextCycle]_vars

\* ------------------------------------------------- run(cycles = N)
\* line 287: the requested cycle count is reached
CyclesReached(w) == cyclesArg # NULL /\ cycle[w] >= cyclesArg

\* lines 287-288 and 293-302: the log call before the break raises; the except
\* branch of the cycle logs the error, records it, pauses and the loop continues
ExitLogFails(w, elapsed) ==
    /\ wpc[w] = "cycle"
    /\ stage[w] = NumStages
    /\ live' = UpdateWorkerLastError(EndOfCycleUpdate(live, now, elapsed), now,
                                     <<"cycle", "raise">>)
    /\ cyclesDone' = [cyclesDone EXCEPT ![w] = @ + 1]
    /\ cycleEnd' = [cycleEnd EXCEPT ![w] = [elapsed |-> elapsed,
                                            sleep_time |-> SleepTime(elapsed),
                                            slept |-> FALSE]]
    /\ storeWrites' = [storeWrites EXCEPT ![w] = @ \cup {"log_cycle_error"}]
    /\ wpc' = [wpc EXCEPT ![w] = "loop"]
    /\ UNCHANGED <<holds, lockMeta, hbThread, stagesRun, attempts, heldAtStart, cycle, stage>>
    /\ UNCHANGED <<started, inflight, lastOutcome>>
    /\ UNCHANGED nonWorkerVars

\* lines 271-291: the end of a cycle of run(cycles)
RunEndCycle(w, elapsed, logFails) ==
    IF CyclesReached(w)
    THEN IF logFails THEN ExitLogFails(w, elapsed) ELSE EndCycleExit(w, elapsed)
    ELSE EndCycleSleep(w, elapsed)

\* main() calls run(cycles) in a process of its own
InitRun ==
    /\ InitStore
    /\ wpc = [w \in Workers |-> "new"]
    /\ slRunning = FALSE
    /\ uipc = [s \in Sessions |-> "idle"]
    /\ tz = 0
    /\ news = <<>>
    /\ gen = [r \in GenRuns |-> IdleGen]
    /\ conf = NoConf
    /\ cyclesArg \in RunArgs
    /\ bucket = NoRow
    /\ stream = NoStream
    /\ got = NoRead
    /\ summary = <<>>
    /\ score = NoScore
    /\ mig = NoMig
    /\ InitExtra
    /\ holds = [w \in Workers |-> FALSE]
    /\ lockMeta = "none"
    /\ hbThread = [w \in Workers |-> FALSE]
    /\ storeWrites = [w \in Workers |-> {}]
    /\ stagesRun = [w \in Workers |-> 0]
    /\ attempts = [w \in Workers |-> 0]
    /\ heldAtStart = [w \in Workers |-> FALSE]
    /\ cycle = [w \in Workers |-> 0]
    /\ stage = [w \in Workers |-> 0]
    /\ live = [last_heartbeat |-> NULL, last_cycle_seconds |-> NULL,
               last_successful_cycle_at |-> NULL, last_error |-> NoError,
               updated_at |-> NULL]
    /\ started = [w \in Workers |-> <<>>]
    /\ inflight = [w \in Workers |-> {}]
    /\ lastOutcome = [w \in Workers |-> NoOutcomeYet]
    /\ cyclesDone = [w \in Workers |-> 0]
    /\ cycleEnd = [w \in Workers |-> NoCycleEnd]

NextRun ==
    \E w \in SchedWorkers :
        \/ Construct(w)
        \/ Acquire(w)
        \/ StartLoop(w)
        \/ BeginCycle(w, RunCycles + 1)
        \/ StartStep(w)
        \/ \E o \in Outcomes : wpc[w] = "join" /\ o \in OutcomesOf(w) /\ JoinStep(w, o)
        \/ \E e \in Durations, f \in BOOLEAN : RunEndCycle(w, e, f)

SpecRun == InitRun /\ [][NextRun]_vars

\* lines 287-288 and 293-296: the log call before the break raises and the log
\* call of the except branch raises as well; the exception leaves run() and main(),
\* the cleanup after the loop is skipped and the process ends
HandlerLogFails(w, elapsed) ==
    /\ wpc[w] = "cycle"
    /\ stage[w] = NumStages
    /\ CyclesReached(w)
    /\ live' = EndOfCycleUpdate(live, now, elapsed)
    /\ cyclesDone' = [cyclesDone EXCEPT ![w] = @ + 1]
    /\ cycleEnd' = [cycleEnd EXCEPT ![w] = [elapsed |-> elapsed,
                                            sleep_time |-> SleepTime(elapsed),
                                            slept |-> FALSE]]
    /\ hbThread' = [hbThread EXCEPT ![w] = FALSE]
    /\ holds' = [holds EXCEPT ![w] = FALSE]
    /\ wpc' = [wpc EXCEPT ![w] = "crashed"]
    /\ inflight' = [inflight EXCEPT ![w] = {}]
    /\ UNCHANGED <<lockMeta, storeWrites, stagesRun, attempts, heldAtStart, cycle, stage>>
    /\ UNCHANGED <<started, lastOutcome>>
    /\ UNCHANGED nonWorkerVars

\* run(cycles) with store writes that can fail and a shutdown signal
NextLoop ==
    \/ NextRun
    \/ \E w \in SchedWorkers, e \in Durations : HandlerLogFails(w, e)
    \/ \E w \in SchedWorkers : ShutdownHandler(w)

SpecLoop == InitRun /\ [][NextLoop]_vars

\* ------------------------------------------------- ensure_worker_running
\* a value that Python takes as true: neither None nor ''
Truthy(x) == x # NULL /\ x # EMPTY

\* status.get('last_heartbeat') or status.get('last_heartbeat_at')
HeartbeatOf(status) ==
    IF Truthy(status.last_heartbeat) THEN status.last_heartbeat
    ELSE status.last_heartbeat_at

\* (mutant) a heartbeat exactly max_stale old still counts as alive
IsWorkerAliveRowInclusive(status, fails, t, max_stale) ==
    /\ ~fails
    /\ status.row
    /\ Truthy(HeartbeatOf(status))
    /\ HeartbeatOf(status) # GARBLED
    /\ t - HeartbeatOf(status) <= max_stale

\* is_worker_alive(max_stale_seconds) on the row get_worker_status returns; fails
\* when get_worker_status raises; the stored heartbeat carries its UTC offset, so
\* the age is taken against the UTC clock
IsWorkerAliveRow(status, fails, t, max_stale) ==
    /\ ~fails
    /\ status.row
    /\ Truthy(HeartbeatOf(status))
    /\ HeartbeatOf(status) # GARBLED
    /\ t - HeartbeatOf(status) < max_stale

\* is_worker_alive(max_stale_seconds = 120) on the liveness record of the store: a
\* heartbeat is on record and less than 120 s old, which in six-hour ticks is a
\* heartbeat of the current tick
IsWorkerAlive(L, t) ==
    IsWorkerAliveRow([row |-> TRUE, last_heartbeat |-> L.last_heartbeat,
                      last_heartbeat_at |-> L.last_heartbeat], FALSE, t, MaxStaleTicks)

\* python worker.py started by hand or by a service manager
LaunchWorker(w) ==
    /\ wpc[w] = "absent"
    /\ wpc' = [wpc EXCEPT ![w] = "new"]
    /\ UNCHANGED <<holds, lockMeta, hbThread, storeWrites, stagesRun, attempts,
                   heldAtStart, cycle, stage>>
    /\ UNCHANGED <<nonWorkerVars, cycleVars>>

\* StreamlitWorker.start under the class lock: at most one loop thread per process
StartStreamlitWorker == slRunning' = TRUE

\* ensure_worker_running, steps 1 and 2: nothing to do when a heartbeat is fresh;
\* else launch worker.py detached and wait 3 s
EnsureLaunch(s, w) ==
    /\ uipc[s] = "idle"
    /\ ~IsWorkerAlive(live, now)
    /\ wpc[w] = "absent"
    /\ wpc' = [wpc EXCEPT ![w] = "new"]
    /\ uipc' = [uipc EXCEPT ![s] = "waiting"]
    /\ UNCHANGED <<holds, lockMeta, hbThread, storeWrites, stagesRun, attempts,
                   heldAtStart, cycle, stage>>
    /\ UNCHANGED <<evalVars, cycleVars, genVars, slRunning, restVars>>

\* steps 1 to 3 when _start_external_worker fails (Popen raises, no script):
\* straight to the in-process StreamlitWorker
EnsureLaunchFailed(s) ==
    /\ uipc[s] = "idle"
    /\ ~IsWorkerAlive(live, now)
    /\ StartStreamlitWorker
    /\ UNCHANGED <<evalVars, workerVars, cycleVars, genVars, uipc, restVars>>

\* after the 3 s: return when the launched worker has written a heartbeat, else
\* fall back to the in-process StreamlitWorker
EnsureRecheck(s) ==
    /\ uipc[s] = "waiting"
    /\ uipc' = [uipc EXCEPT ![s] = "idle"]
    /\ IF IsWorkerAlive(live, now) THEN UNCHANGED slRunning ELSE StartStreamlitWorker
    /\ UNCHANGED <<evalVars, workerVars, cycleVars, genVars, restVars>>

\* one cycle of StreamlitWorker._worker_loop: heartbeat, stages, liveness update
StreamlitCycle(elapsed) ==
    /\ slRunning
    /\ live' = EndOfCycleUpdate(UpdateWorkerHeartbeat(live, now, NULL), now, elapsed)
    /\ UNCHANGED <<started, inflight, lastOutcome, cyclesDone, cycleEnd>>
    /\ UNCHANGED <<evalVars, workerVars, schedVars, genVars, restVars>>

\* no worker process exists yet
InitSched ==
    /\ InitStore
    /\ wpc = [w \in Workers |-> "absent"]
    /\ InitProcesses

NextSched ==
    \/ Tick
    \/ \E w \in SchedWorkers : LaunchWorker(w)
    \/ \E s \in Sessions, w \in SchedWorkers : EnsureLaunch(s, w)
    \/ \E s \in Sessions : EnsureLaunchFailed(s)
    \/ \E s \in Sessions : EnsureRecheck(s)
    \/ \E e \in Durations : StreamlitCycle(e)
    \/ WorkerNext(SchedWorkers, MaxCycles)

SpecSched == InitSched /\ [][NextSched]_vars

\* ------------------------------------------- forecast generation from news
\* RECOMMENDATION_HORIZONS[horizon_key] in ticks
HorizonOf(hk) == IF hk = "12h" THEN HorizonTicks ELSE 2 * HorizonTicks

\* a forecast of Forecaster.generate_forecasts for a news item and one horizon
NewsForecast(news_id, hk, asset, direction, price0, t) ==
    [NewForecast(asset, direction, price0, t) EXCEPT
         !.news_id = news_id, !.horizon_key = hk,
         !.horizon_minutes = HorizonOf(hk), !.due_at = t + HorizonOf(hk)]

\* ORDER BY fetched_at DESC
RECURSIVE OrderByFetchedDesc(_, _)
OrderByFetchedDesc(N, S) ==
    IF S = {} THEN <<>>
    ELSE LET m == CHOOSE i \in S : \A j \in S :
                      N[j].fetched_at < N[i].fetched_at
                      \/ (N[j].fetched_at = N[i].fetched_at /\ i <= j)
         IN  <<m>> \o OrderByFetchedDesc(N, S \ {m})

\* SELECT * FROM news WHERE processed = 0 ORDER BY fetched_at DESC
GetUnprocessedNews(N) == OrderByFetchedDesc(N, {i \in DOMAIN N : ~N[i].processed})

\* the (asset, horizon_key) pairs generate_forecasts returns for a news item: every
\* affected asset with every configured horizon
RECURSIVE ForecastKeys(_, _)
ForecastKeys(assets, hks) ==
    IF assets = {} THEN <<>>
    ELSE LET a == CHOOSE x \in assets : TRUE
         IN  [i \in 1..Len(hks) |-> <<a, hks[i]>>] \o ForecastKeys(assets \ {a}, hks)

\* results of ImpactEngine.analyze_news for the news item of the model
Impacts == {[category |-> "economy", impact_level |-> "HIGH", confidence |-> 700]}

\* insert_news of a collected item: the feed gives no analysis fields
NewNews(t, url) ==
    [processed |-> FALSE, fetched_at |-> t, title_en |-> "headline", url |-> url,
     category |-> NoText, impact_level |-> NoText, confidence |-> NULL]

\* has_news_url: a row with this url is stored
HasNewsUrl(N, url) == \E i \in 1..Len(N) : N[i].url = url

\* (mutant) the url column is not UNIQUE
InsertNewsRowNoUnique(N, row) == [N |-> Append(N, row), id |-> Len(N) + 1]

\* insert_news: the INSERT under UNIQUE(url); an IntegrityError gives None and the
\* table keeps its rows
InsertNewsRow(N, row) ==
    IF HasNewsUrl(N, row.url) THEN [N |-> N, id |-> NULL]
    ELSE [N |-> Append(N, row), id |-> Len(N) + 1]

\* the url of an item that no stored row has: links are numbered
FreshUrl(N) == Len(N) + 1

\* update_news_analysis
UpdateNewsAnalysis(row, impact) ==
    [row EXCEPT !.category = impact.category, !.impact_level = impact.impact_level,
                !.confidence = impact.confidence]

\* _process_news, lines 346-386: the news ingestion stage stores a collected item
\* and its analysis
InsertNews(maxN) ==
    /\ Len(news) < maxN
    /\ \E impact \in Impacts :
           news' = InsertNewsRow(news, UpdateNewsAnalysis(NewNews(now, FreshUrl(news)), impact)).N
    /\ UNCHANGED <<tz, gen, conf>>
    /\ UNCHANGED <<evalVars, workerVars, cycleVars, schedVars, restVars>>

\* _process_news, lines 346-359: the item is stored, and the translation and the
\* analysis are skipped because the stage is over its time budget or has analysed
\* max_analyzed_per_cycle items
InsertNewsOverBudget(maxN) ==
    /\ Len(news) < maxN
    /\ news' = InsertNewsRow(news, NewNews(now, FreshUrl(news))).N
    /\ UNCHANGED <<tz, gen, conf>>
    /\ UNCHANGED <<evalVars, workerVars, cycleVars, schedVars, restVars>>

\* lines 473-474: an analysis field of the item is missing
AnalysisMissing(row) ==
    row.category = NoText \/ row.impact_level = NoText \/ row.confidence = NULL

\* lines 473-496: the analysis of an item that lacks it is computed and written
\* to its row
BackfillAnalysis(row, impact) ==
    IF AnalysisMissing(row) THEN UpdateNewsAnalysis(row, impact) ELSE row

NextGenPc(items) == IF items = <<>> THEN "idle" ELSE "item"

\* _generate_forecasts, lines 449-468: read the unprocessed news; return when
\* there is none
GenStart(r) ==
    /\ gen[r].pc = "idle"
    /\ GetUnprocessedNews(news) # <<>>
    /\ gen' = [gen EXCEPT ![r] = [pc |-> "item", items |-> GetUnprocessedNews(news),
                                  todo |-> <<>>, inserted |-> 0]]
    /\ UNCHANGED <<tz, news, conf>>
    /\ UNCHANGED <<evalVars, workerVars, cycleVars, schedVars, restVars>>

\* lines 470-531: the forecasts of the next news item are generated
GenItem(r) ==
    /\ gen[r].pc = "item"
    /\ gen' = [gen EXCEPT ![r].pc = "insert", ![r].inserted = 0,
                          ![r].todo = ForecastKeys(Assets, HorizonKeys)]
    /\ \E impact \in Impacts :
           news' = [news EXCEPT ![Head(gen[r].items)] = BackfillAnalysis(@, impact)]
    /\ UNCHANGED <<tz, conf>>
    /\ UNCHANGED <<evalVars, workerVars, cycleVars, schedVars, restVars>>

\* lines 533-537: insert_forecast stores the next forecast of the item
GenInsert(r, direction, maxF) ==
    /\ gen[r].pc = "insert"
    /\ gen[r].todo # <<>>
    /\ Len(forecasts) < maxF
    /\ LET k == Head(gen[r].todo)
       IN  forecasts' = Append(forecasts,
                               NewsForecast(Head(gen[r].items), k[2], k[1], direction,
                                            GetLatestPrice(prices, k[1]).price, LocalNow))
    /\ evalCalls' = Append(evalCalls, 0)
    /\ calibCalls' = Append(calibCalls, 0)
    /\ gen' = [gen EXCEPT ![r].todo = Tail(@), ![r].inserted = @ + 1]
    /\ UNCHANGED <<now, prices, calibration, pass, tz, news, conf>>
    /\ UNCHANGED <<workerVars, cycleVars, schedVars, restVars>>

\* (mutant) the item is marked processed in the exception handler
GenInsertFailsMarks(r) ==
    /\ gen[r].pc = "insert"
    /\ gen[r].todo # <<>>
    /\ gen' = [gen EXCEPT ![r].items = Tail(@), ![r].todo = <<>>,
                          ![r].pc = NextGenPc(Tail(gen[r].items))]
    /\ news' = [news EXCEPT ![Head(gen[r].items)].processed = TRUE]
    /\ UNCHANGED <<tz, conf>>
    /\ UNCHANGED <<evalVars, workerVars, cycleVars, schedVars, restVars>>

\* lines 545-548: insert_forecast raises (the database is locked, the disk is
\* full); the error is logged and the loop goes on with the next news item
GenInsertFails(r) ==
    /\ gen[r].pc = "insert"
    /\ gen[r].todo # <<>>
    /\ gen' = [gen EXCEPT ![r].items = Tail(@), ![r].todo = <<>>,
                          ![r].pc = NextGenPc(Tail(gen[r].items))]
    /\ UNCHANGED <<tz, news, conf>>
    /\ UNCHANGED <<evalVars, workerVars, cycleVars, schedVars, restVars>>

\* lines 539-543: the item is marked processed after at least one insert
GenMark(r) ==
    /\ gen[r].pc = "insert"
    /\ gen[r].todo = <<>>
    /\ news' = IF gen[r].inserted > 0
               THEN [news EXCEPT ![Head(gen[r].items)].processed = TRUE]
               ELSE news
    /\ gen' = [gen EXCEPT ![r].items = Tail(@),
                          ![r].pc = NextGenPc(Tail(gen[r].items))]
    /\ UNCHANGED <<tz, conf>>
    /\ UNCHANGED <<evalVars, workerVars, cycleVars, schedVars, restVars>>

\* the generation stage of the cycle and a late generation thread on one store
NextGen ==
    \/ Tick
    \/ InsertNews(GenNews)
    \/ \E r \in GenRuns : GenStart(r)
    \/ \E r \in GenRuns : GenItem(r)
    \/ \E r \in GenRuns : GenInsert(r, "UP", GenForecasts)
    \/ \E r \in GenRuns : GenInsertFails(r)
    \/ \E r \in GenRuns : GenMark(r)

SpecGen == Init /\ [][NextGen]_vars

\* the ingestion stage, over its budget or not, and the generation stage
NextNews == NextGen \/ InsertNewsOverBudget(GenNews)

SpecNews == Init /\ [][NextNews]_vars

\* ------------------------------------------------- local clock against UTC
\* a process whose local clock is tz ticks ahead of UTC
InitClock ==
    /\ now = 2
    /\ forecasts = <<>>
    /\ prices = <<>>
    /\ calibration = [k \in BucketKeys |-> [n_total |-> 0, n_hit |-> 0]]
    /\ pass = [p \in Passes |-> IdlePass]
    /\ evalCalls = <<>>
    /\ calibCalls = <<>>
    /\ wpc = [w \in Workers |-> "new"]
    /\ slRunning = FALSE
    /\ uipc = [s \in Sessions |-> "idle"]
    /\ tz \in Offsets
    /\ news = <<>>
    /\ gen = [r \in GenRuns |-> IdleGen]
    /\ cyclesArg = NULL
    /\ bucket = NoRow
    /\ stream = NoStream
    /\ got = NoRead
    /\ summary = <<>>
    /\ score = NoScore
    /\ mig = NoMig
    /\ InitExtra
    /\ conf = NoConf
    /\ holds = [w \in Workers |-> FALSE]
    /\ lockMeta = "none"
    /\ hbThread = [w \in Workers |-> FALSE]
    /\ storeWrites = [w \in Workers |-> {}]
    /\ stagesRun = [w \in Workers |-> 0]
    /\ attempts = [w \in Workers |-> 0]
    /\ heldAtStart = [w \in Workers |-> FALSE]
    /\ cycle = [w \in Workers |-> 0]
    /\ stage = [w \in Workers |-> 0]
    /\ live = [last_heartbeat |-> NULL, last_cycle_seconds |-> NULL,
               last_successful_cycle_at |-> NULL, last_error |-> NoError,
               updated_at |-> NULL]
    /\ started = [w \in Workers |-> <<>>]
    /\ inflight = [w \in Workers |-> {}]
    /\ lastOutcome = [w \in Workers |-> NoOutcomeYet]
    /\ cyclesDone = [w \in Workers |-> 0]
    /\ cycleEnd = [w \in Workers |-> NoCycleEnd]

NextClock == StoreNext({"stage"}, {"UP"}, {1000}, ClockForecasts, ClockPrices)

SpecClock == InitClock /\ [][NextClock]_vars

\* ------------------------------------------------- forecast confidence
\* Confidences are integers in units of 1/Units of a tenth of a percent, so that
\* the products with the multipliers 0.5 + 0.5 * strength, 0.8 and 0.7 are exact.
Units == 200
MinConfidenceAllowed == 250
MaxConfidenceAllowed == 850
CapLow == 550
CapMedium == 750
CapHigh == 850

Min2(a, b) == IF a <= b THEN a ELSE b
Max2(a, b) == IF a >= b THEN a ELSE b

\* round(x, 1): units to the nearest tenth of a percent, ties to even
Round1(u) ==
    LET q == u \div Units
        r == u % Units
    IN  IF 2 * r < Units THEN q
        ELSE IF 2 * r > Units THEN q + 1
        ELSE IF q % 2 = 0 THEN q ELSE q + 1

\* _determine_direction: <<direction, confidence in units>>
DetermineDirection(correlation, sentiment, base) ==
    IF correlation = <<>>
    THEN <<"NEUTRAL", Max2(base * 140, MinConfidenceAllowed * Units)>>
    ELSE LET ctype == correlation[1]
             \* base * multiplier, multiplier = 0.5 + 0.5 * strength
             scaled == base * (10 + correlation[2])
             direction ==
                 IF ctype = "variable" \/ sentiment = "neutral" THEN "NEUTRAL"
                 ELSE IF ctype = "negative"
                      THEN (IF sentiment = "positive" THEN "DOWN" ELSE "UP")
                      ELSE (IF sentiment = "positive" THEN "UP" ELSE "DOWN")
             confidence ==
                 IF ctype = "variable" THEN scaled * 7
                 ELSE IF sentiment = "neutral" THEN scaled * 8
                 ELSE scaled * 10
             bounded == Max2(MinConfidenceAllowed * Units,
                             Min2(confidence, MaxConfidenceAllowed * Units))
         IN  <<direction, Round1(bounded) * Units>>

\* the impact level's cap alone, without the configured bounds
CapConfidenceByImpactNoBounds(confidence, impact_level) == Round1(confidence)

\* _cap_confidence_by_impact: confidence in units -> tenths of a percent
CapConfidenceByImpact(confidence, impact_level) ==
    LET cap == IF impact_level = "LOW" THEN CapLow
               ELSE IF impact_level = "MEDIUM" THEN CapMedium
               ELSE IF impact_level = "HIGH" THEN CapHigh
               ELSE MaxConfidenceAllowed
        capped == Min2(confidence, cap * Units)
    IN  Round1(Max2(MinConfidenceAllowed * Units,
                    Min2(capped, MaxConfidenceAllowed * Units)))

\* Forecaster._create_forecast, lines 55-66: direction and confidence of the
\* forecast that insert_forecast stores
CreateForecast ==
    /\ conf.confidence = NULL
    /\ LET dc == DetermineDirection(conf.correlation, conf.sentiment, conf.base)
       IN  conf' = [conf EXCEPT !.direction = dc[1],
                                !.confidence = CapConfidenceByImpact(dc[2], conf.impact)]
    /\ UNCHANGED <<tz, news, gen>>
    /\ UNCHANGED <<evalVars, workerVars, cycleVars, schedVars, restVars>>

\* an analysis reaches _create_forecast with any confidence, impact level,
\* sentiment and correlation entry
InitConf ==
    /\ InitStore
    /\ wpc = [w \in Workers |-> "new"]
    /\ slRunning = FALSE
    /\ uipc = [s \in Sessions |-> "idle"]
    /\ tz = 0
    /\ news = <<>>
    /\ gen = [r \in GenRuns |-> IdleGen]
    /\ cyclesArg = NULL
    /\ bucket = NoRow
    /\ stream = NoStream
    /\ got = NoRead
    /\ summary = <<>>
    /\ score = NoScore
    /\ mig = NoMig
    /\ InitExtra
    /\ conf \in [base : BaseConfidences, impact : ImpactLevels,
                 correlation : Correlations, sentiment : Sentiments,
                 direction : {"null"}, confidence : {NULL}]
    /\ holds = [w \in Workers |-> FALSE]
    /\ lockMeta = "none"
    /\ hbThread = [w \in Workers |-> FALSE]
    /\ storeWrites = [w \in Workers |-> {}]
    /\ stagesRun = [w \in Workers |-> 0]
    /\ attempts = [w \in Workers |-> 0]
    /\ heldAtStart = [w \in Workers |-> FALSE]
    /\ cycle = [w \in Workers |-> 0]
    /\ stage = [w \in Workers |-> 0]
    /\ live = [last_heartbeat |-> NULL, last_cycle_seconds |-> NULL,
               last_successful_cycle_at |-> NULL, last_error |-> NoError,
               updated_at |-> NULL]
    /\ started = [w \in Workers |-> <<>>]
    /\ inflight = [w \in Workers |-> {}]
    /\ lastOutcome = [w \in Workers |-> NoOutcomeYet]
    /\ cyclesDone = [w \in Workers |-> 0]
    /\ cycleEnd = [w \in Workers |-> NoCycleEnd]

NextConf == CreateForecast

SpecConf == InitConf /\ [][NextConf]_vars

\* ------------------------------------------------- calibration statistics
\* rolling_accuracy is stored rounded to 3 decimals: integers in thousandths of a
\* percent; weight_multiplier is stored rounded to 4 decimals: integers in
\* ten-thousandths
RollScale == 1000
WeightScale == 10000
\* alpha = 0.05, in percent
AlphaPct == 5
\* 0.75, 0.6 and 1.4 in ten-thousandths
WeightBase == 7500
WeightMin == 6000
WeightMax == 14000

\* round(n / d, k) for n >= 0: the nearest integer; a value half-way between
\* two neighbours is a binary float next to the tie and may go either way
RoundChoices(n, d) ==
    LET q == n \div d
        r == n % d
    IN  IF 2 * r < d THEN {q}
        ELSE IF 2 * r > d THEN {q + 1}
        ELSE {q, q + 1}

\* (mutant) the hit score on a 0/1 scale
InstantAccUnit(hit) == hit * RollScale

\* instant_acc = hit * 100.0
InstantAcc(hit) == hit * 100 * RollScale

\* (mutant) the previous value is not decayed
EwmaNoDecay(rolling, instant_acc) == 100 * rolling + AlphaPct * instant_acc

\* (1.0 - alpha) * rolling + alpha * instant_acc, as a numerator over 100
Ewma(rolling, instant_acc) == (100 - AlphaPct) * rolling + AlphaPct * instant_acc

\* rolling2, lines 1621-1626, as a numerator over 100: the instant score for the
\* first outcome of a bucket, the moving average afterwards
Rolling2(row, hit) ==
    IF row.rolling_accuracy = NULL THEN 100 * InstantAcc(hit)
    ELSE Ewma(row.rolling_accuracy, InstantAcc(hit))

\* the denominator of WeightNum: 100 (of rolling2) * RollScale * 100 (percent)
\* * 2 (the factor 0.5) / WeightScale
WeightDen == 2000

\* (mutant) 0.75 + 0.5 * rolling2, without the division by 100
WeightNumNoPercent(rolling2) ==
    Max2(WeightMin * WeightDen,
         Min2(WeightBase * WeightDen + 100 * rolling2, WeightMax * WeightDen))

\* weight = max(0.6, min(1.4, 0.75 + 0.5 * (rolling2 / 100.0))), as a numerator
\* over WeightDen
WeightNum(rolling2) ==
    Max2(WeightMin * WeightDen,
         Min2(WeightBase * WeightDen + rolling2, WeightMax * WeightDen))

\* the rows INSERT OR REPLACE can write for one outcome
UpdatedRows(row, hit) ==
    LET rolling2 == Rolling2(row, hit)
    IN  {[n_total |-> row.n_total + 1, n_hit |-> row.n_hit + hit,
          rolling_accuracy |-> ra, weight_multiplier |-> w] :
             ra \in RoundChoices(rolling2, 100),
             w \in RoundChoices(WeightNum(rolling2), WeightDen)}

\* _update_calibration_stats for one evaluated forecast of the bucket's key
RecordOutcome(hit, maxN) ==
    /\ stream.n < maxN
    /\ stream.kind = "hits" => hit = 1
    /\ stream.kind = "misses" => hit = 0
    /\ bucket' \in UpdatedRows(bucket, hit)
    /\ stream' = [stream EXCEPT !.n = @ + 1, !.last = hit]
    /\ UNCHANGED got
    /\ UNCHANGED <<evalVars, workerVars, cycleVars, schedVars, genVars, runVars, summaryVars, migVars, extraVars>>

\* (mutant) the stored value is returned as it is
GetCalibrationWeightNoDefault(row, fails) == row.weight_multiplier

\* get_calibration_weight: 1.0 when the lookup raises, when there is no row and
\* when the row's weight_multiplier is NULL, else the stored weight_multiplier
GetCalibrationWeight(row, fails) ==
    IF fails THEN WeightScale
    ELSE IF row = NoRow \/ row.weight_multiplier = NULL THEN WeightScale
    ELSE row.weight_multiplier

\* a caller asks for the weight of the bucket's key; fails: the store lookup raises
ReadWeight(fails) ==
    /\ got' = [calls |-> 1, failed |-> fails, stored |-> bucket.weight_multiplier,
               weight |-> GetCalibrationWeight(bucket, fails)]
    /\ UNCHANGED <<bucket, stream>>
    /\ UNCHANGED <<evalVars, workerVars, cycleVars, schedVars, genVars, runVars, summaryVars, migVars, extraVars>>

\* the row after a first miss, after a first hit, and a row at 50 percent
MissRow == [n_total |-> 1, n_hit |-> 0, rolling_accuracy |-> 0,
            weight_multiplier |-> WeightBase]
HitRow == [n_total |-> 1, n_hit |-> 1, rolling_accuracy |-> 100 * RollScale,
           weight_multiplier |-> WeightBase + 5000]
MidRow == [n_total |-> 2, n_hit |-> 1, rolling_accuracy |-> 50 * RollScale,
           weight_multiplier |-> WeightBase + 2500]
StartRows == {NoRow, MissRow, HitRow, MidRow}

InitBucket(kinds) ==
    /\ InitStore
    /\ wpc = [w \in Workers |-> "new"]
    /\ slRunning = FALSE
    /\ uipc = [s \in Sessions |-> "idle"]
    /\ tz = 0
    /\ news = <<>>
    /\ gen = [r \in GenRuns |-> IdleGen]
    /\ conf = NoConf
    /\ cyclesArg = NULL
    /\ bucket \in StartRows
    /\ \E k \in kinds :
           stream = [kind |-> k, start |-> bucket.rolling_accuracy, n |-> 0,
                     last |-> NULL]
    /\ got = NoRead
    /\ summary = <<>>
    /\ score = NoScore
    /\ mig = NoMig
    /\ InitExtra
    /\ holds = [w \in Workers |-> FALSE]
    /\ lockMeta = "none"
    /\ hbThread = [w \in Workers |-> FALSE]
    /\ storeWrites = [w \in Workers |-> {}]
    /\ stagesRun = [w \in Workers |-> 0]
    /\ attempts = [w \in Workers |-> 0]
    /\ heldAtStart = [w \in Workers |-> FALSE]
    /\ cycle = [w \in Workers |-> 0]
    /\ stage = [w \in Workers |-> 0]
    /\ live = [last_heartbeat |-> NULL, last_cycle_seconds |-> NULL,
               last_successful_cycle_at |-> NULL, last_error |-> NoError,
               updated_at |-> NULL]
    /\ started = [w \in Workers |-> <<>>]
    /\ inflight = [w \in Workers |-> {}]
    /\ lastOutcome = [w \in Workers |-> NoOutcomeYet]
    /\ cyclesDone = [w \in Workers |-> 0]
    /\ cycleEnd = [w \in Workers |-> NoCycleEnd]

\* any sequence of outcomes recorded into one bucket
InitCalib == InitBucket({"mixed"})
NextCalib ==
    \/ \E hit \in {0, 1} : RecordOutcome(hit, CalibUpdates)
    \/ \E fails \in BOOLEAN : ReadWeight(fails)
SpecCalib == InitCalib /\ [][NextCalib]_vars

\* a stream of only hits or of only misses recorded into one bucket
InitStream == InitBucket({"hits", "misses"})
NextStream == \E hit \in {0, 1} : RecordOutcome(hit, StreamLen)
SpecStream == InitStream /\ [][NextStream]_vars
\* evaluation goes on while forecasts of the key fall due
SpecStreamLive == SpecStream /\ WF_vars(NextStream)

\* ------------------------------------------------- evaluation summary
\* the default horizons of compute_and_store_evaluation_summary that forecasts
\* of the store can have: <<horizon_key, horizon_minutes>>
SummaryHorizons == {<<"12h", HorizonTicks>>}

\* fetch_evaluated_forecasts restricted to one horizon: the ids of the rows of
\* the asset with an evaluated_at (the 60 days window is longer than any run)
EvaluatedRows(F, asset, hm) ==
    {id \in DOMAIN F : /\ F[id].evaluated_at # NULL
                       /\ F[id].asset = asset
                       /\ F[id].horizon_minutes = hm}

\* compute_metrics, lines 133-146: the hit of a row
HitOf(r) == IF r.direction_correct # NULL
            THEN (IF r.direction_correct = 1 THEN 1 ELSE 0)
            ELSE IF r.evaluation_result # NoText
                 THEN (IF r.evaluation_result = "hit" THEN 1 ELSE 0)
                 ELSE 0

\* compute_metrics: the counters of a row set
HorizonMetrics(F, asset, hk, hm, t) ==
    LET ids == EvaluatedRows(F, asset, hm)
    IN  [computed_at |-> t, asset |-> asset, horizon_key |-> hk,
         horizon_minutes |-> hm,
         n_total |-> Cardinality(ids),
         n_hit |-> Cardinality({id \in ids : HitOf(F[id]) = 1})]

\* all_metrics: one entry for every asset and horizon with evaluated rows
RECURSIVE AllMetrics(_, _, _)
AllMetrics(F, keys, t) ==
    IF keys = {} THEN <<>>
    ELSE LET k == CHOOSE x \in keys : TRUE
             rest == AllMetrics(F, keys \ {k}, t)
         IN  IF EvaluatedRows(F, k[1], k[2][2]) = {} THEN rest
             ELSE <<HorizonMetrics(F, k[1], k[2][1], k[2][2], t)>> \o rest

\* (mutant) INSERT OR REPLACE keyed by asset and horizon
PersistSummaryReplace(S, metrics) ==
    LET keep == SelectSeq(S, LAMBDA r : \A i \in DOMAIN metrics :
                                 ~(/\ metrics[i].asset = r.asset
                                   /\ metrics[i].horizon_minutes = r.horizon_minutes))
    IN  keep \o metrics

\* persist_summary: one INSERT per entry
PersistSummary(S, metrics) == S \o metrics

\* compute_and_store_evaluation_summary, called by the accuracy page
ComputeAndStoreEvaluationSummary(maxS) ==
    /\ Len(summary) < maxS
    /\ summary' = PersistSummary(summary,
                                 AllMetrics(forecasts, Assets \X SummaryHorizons, now))
    /\ UNCHANGED score
    /\ UNCHANGED <<evalVars, workerVars, cycleVars, schedVars, genVars, runVars, calibVars, migVars, extraVars>>

\* the accuracy page is loaded while one due forecast is evaluated
NextSummary ==
    \/ Tick
    \/ PassNext({"stage"})
    \/ ComputeAndStoreEvaluationSummary(SumRows)

SpecSummary == InitOutcome /\ [][NextSummary]_vars

\* ------------------------------------------------- calibration score
\* p = max(0.0, min(float(c) / 100.0, 1.0)), in thousandths
Probability(c) == Max2(0, Min2(c, 1000))

RECURSIVE SumDiffs(_, _)
\* sum of abs(p - y) over zip(confidence_pct, hits), in thousandths
SumDiffs(confs, hits) ==
    IF confs = <<>> \/ hits = <<>> THEN 0
    ELSE AbsVal(Probability(Head(confs)) - 1000 * Head(hits))
         + SumDiffs(Tail(confs), Tail(hits))

\* _compute_calibration_score: the scores round(..., 3) can give, in thousandths;
\* {NULL} for None
ComputeCalibrationScore(confs, hits) ==
    IF confs = <<>> \/ hits = <<>> \/ Len(confs) # Len(hits) THEN {NULL}
    ELSE RoundChoices(100000 * Len(confs) - 100 * SumDiffs(confs, hits), Len(confs))

\* compute_metrics, lines 148-150: only the rows with a confidence go into confs
ConfsOf(rows) ==
    LET withConf == SelectSeq(rows, LAMBDA r : r.confidence # NULL)
    IN  [i \in DOMAIN withConf |-> withConf[i].confidence]

\* compute_metrics, lines 146 and 165: every row goes into hits
HitsOf(rows) == [i \in DOMAIN rows |-> rows[i].hit]

\* compute_metrics on the rows of score
ComputeMetrics ==
    /\ ~score.done
    /\ \E c \in ComputeCalibrationScore(ConfsOf(score.rows), HitsOf(score.rows)) :
           score' = [score EXCEPT !.calibration_score = c, !.done = TRUE]
    /\ UNCHANGED summary
    /\ UNCHANGED <<evalVars, workerVars, cycleVars, schedVars, genVars, runVars, calibVars, migVars, extraVars>>

\* the row sets of evaluated forecasts of 1..ScoreRows rows
ScoreRowSets ==
    UNION {[1..n -> [confidence : ScoreConfidences, hit : {0, 1}]] : n \in 1..ScoreRows}

InitScore ==
    /\ InitStore
    /\ wpc = [w \in Workers |-> "new"]
    /\ slRunning = FALSE
    /\ uipc = [s \in Sessions |-> "idle"]
    /\ tz = 0
    /\ news = <<>>
    /\ gen = [r \in GenRuns |-> IdleGen]
    /\ conf = NoConf
    /\ cyclesArg = NULL
    /\ bucket = NoRow
    /\ stream = NoStream
    /\ got = NoRead
    /\ summary = <<>>
    /\ \E rows \in ScoreRowSets :
           score = [rows |-> rows, calibration_score |-> NULL, done |-> FALSE]
    /\ mig = NoMig
    /\ InitExtra
    /\ holds = [w \in Workers |-> FALSE]
    /\ lockMeta = "none"
    /\ hbThread = [w \in Workers |-> FALSE]
    /\ storeWrites = [w \in Workers |-> {}]
    /\ stagesRun = [w \in Workers |-> 0]
    /\ attempts = [w \in Workers |-> 0]
    /\ heldAtStart = [w \in Workers |-> FALSE]
    /\ cycle = [w \in Workers |-> 0]
    /\ stage = [w \in Workers |-> 0]
    /\ live = [last_heartbeat |-> NULL, last_cycle_seconds |-> NULL,
               last_successful_cycle_at |-> NULL, last_error |-> NoError,
               updated_at |-> NULL]
    /\ started = [w \in Workers |-> <<>>]
    /\ inflight = [w \in Workers |-> {}]
    /\ lastOutcome = [w \in Workers |-> NoOutcomeYet]
    /\ cyclesDone = [w \in Workers |-> 0]
    /\ cycleEnd = [w \in Workers |-> NoCycleEnd]

NextScore == ComputeMetrics

SpecScore == InitScore /\ [][NextScore]_vars

\* ------------------------------------------------- migrate_database
\* tables that CREATE TABLE IF NOT EXISTS makes
MigTables == {"worker_status", "user_page_state", "system_logs", "db_meta",
              "recommendation_history", "evaluation_summary", "news_archive",
              "calibration_stats"}

\* required_forecast_cols, the columns the data steps read or write and the
\* additive ones
RequiredForecastCols ==
    {"news_id", "asset", "direction", "confidence", "risk_level", "horizon_minutes",
     "created_at", "due_at", "status", "evaluation_result", "actual_return",
     "evaluated_at", "actual_price", "actual_time", "direction_correct", "abs_error",
     "pct_error", "evaluation_quality", "forecast_time", "evaluation_time",
     "expected_direction", "confidence_level", "price_change_percent", "is_accurate",
     "horizon_key", "predicted_price", "reasoning_tags", "news_category",
     "news_sentiment", "impact_level", "recommendation_group_id", "pred_abs_error",
     "pred_pct_error", "expired_at"}

\* the forecasts columns of a database made by the legacy core/ schema
LegacyForecastCols ==
    {"asset", "forecast_time", "evaluation_time", "expected_direction",
     "confidence_level", "price_change_percent", "is_accurate", "horizon_minutes"}

\* a timestamp is NULL or ''
BlankTime(x) == x = NULL \/ x = EMPTY
\* a text is NULL or ''
BlankText(x) == x = NoText \/ x = ""

\* _ensure_columns: adds the missing columns; nothing when the table is absent
EnsureColumns(db, table, field, required) ==
    IF table \in db.tables THEN [db EXCEPT ![field] = @ \cup required] ELSE db

\* lines 57-93: worker_status, its one row and the last_heartbeat_at backfill
MigrateWorkerStatus(db) ==
    LET row == IF "worker_status" \in db.tables THEN db.ws
               ELSE [last_heartbeat |-> NULL, last_heartbeat_at |-> NULL]
    IN  [db EXCEPT !.tables = @ \cup {"worker_status"},
                   !.ws = IF BlankTime(row.last_heartbeat_at) /\ row.last_heartbeat # NULL
                          THEN [row EXCEPT !.last_heartbeat_at = row.last_heartbeat]
                          ELSE row]

\* lines 344-361: created_at <-> forecast_time
SyncCreated(r) ==
    LET a == IF BlankTime(r.forecast_time) /\ r.created_at # NULL
             THEN [r EXCEPT !.forecast_time = r.created_at] ELSE r
    IN  IF BlankTime(a.created_at) /\ a.forecast_time # NULL
        THEN [a EXCEPT !.created_at = a.forecast_time] ELSE a

\* lines 363-380: evaluated_at <-> evaluation_time
SyncEvaluated(r) ==
    LET a == IF BlankTime(r.evaluation_time) /\ r.evaluated_at # NULL
             THEN [r EXCEPT !.evaluation_time = r.evaluated_at] ELSE r
    IN  IF BlankTime(a.evaluated_at) /\ a.evaluation_time # NULL
        THEN [a EXCEPT !.evaluated_at = a.evaluation_time] ELSE a

\* (mutant) the backfill leaves the horizon out
BackfillDueAtNoHorizon(r) ==
    IF BlankTime(r.due_at) /\ r.created_at # NULL /\ r.horizon_minutes # NULL
       /\ r.created_at # EMPTY
    THEN [r EXCEPT !.due_at = r.created_at] ELSE r

\* lines 382-405: due_at = created_at + horizon_minutes when missing;
\* fromisoformat('') raises and the row is skipped
BackfillDueAt(r) ==
    IF BlankTime(r.due_at) /\ r.created_at # NULL /\ r.horizon_minutes # NULL
       /\ r.created_at # EMPTY
    THEN [r EXCEPT !.due_at = r.created_at + r.horizon_minutes] ELSE r

\* UPPER(TRIM(expected_direction)) with the LIKE cases
NormalDirection(x) ==
    IF x \in {"up", "UP"} THEN "UP" ELSE IF x \in {"down", "DOWN"} THEN "DOWN"
    ELSE IF x = "sideways" THEN "SIDEWAYS" ELSE x

\* lines 407-421
BackfillDirection(r) ==
    IF BlankText(r.direction) /\ r.expected_direction # NoText
    THEN [r EXCEPT !.direction = NormalDirection(r.expected_direction)] ELSE r

\* lines 423-432
BackfillConfidence(r) ==
    IF r.confidence = NULL /\ r.confidence_level # NULL
    THEN [r EXCEPT !.confidence = r.confidence_level] ELSE r

\* lines 445-458
BackfillEvaluationResult(r) ==
    IF r.evaluation_result = NoText /\ r.is_accurate # NULL
    THEN [r EXCEPT !.evaluation_result =
                       IF r.is_accurate = 1 THEN "hit"
                       ELSE IF r.is_accurate = 0 THEN "miss" ELSE @]
    ELSE r

\* lines 460-479
BackfillStatus(r) ==
    IF BlankText(r.status) /\ r.evaluated_at # NULL
    THEN [r EXCEPT !.status = "evaluated"] ELSE r

\* (mutant) every asset that starts with USD gets the suffix
UnifyAssetAppend(asset) ==
    IF asset = "USD" THEN "USD Index"
    ELSE IF asset = "USD Index" THEN "USD Index Index" ELSE asset

\* lines 484-490: UPDATE ... SET asset = 'USD Index' WHERE asset = 'USD'
UnifyAsset(asset) == IF asset = "USD" THEN "USD Index" ELSE asset

\* lines 332-479: the data steps on the forecasts row; they are nested under the
\* test for the news table
MigrateForecastRow(db) ==
    IF "news" \in db.tables /\ "forecasts" \in db.tables
    THEN BackfillStatus(BackfillEvaluationResult(BackfillConfidence(
             BackfillDirection(BackfillDueAt(SyncEvaluated(SyncCreated(db.f)))))))
    ELSE db.f

\* migrate_database
MigrateDatabase(db) ==
    LET d1 == MigrateWorkerStatus(db)
        d2 == [d1 EXCEPT !.tables = @ \cup MigTables,
                         !.triggers = @ \cup ({"trg_news_delete" : x \in {1} \cap
                                                  {IF "news" \in db.tables THEN 1 ELSE 0}}
                                              \cup
                                              {"trg_forecasts_delete" : x \in {1} \cap
                                                  {IF "forecasts" \in db.tables THEN 1 ELSE 0}})]
        d3 == EnsureColumns(d2, "forecasts", "fcols", RequiredForecastCols)
        d4 == EnsureColumns(d3, "news", "ncols", {"importance_score", "importance_level"})
        d5 == [d4 EXCEPT !.f = MigrateForecastRow(d4)]
    IN  IF "forecasts" \in d5.tables
        THEN [d5 EXCEPT !.f.asset = UnifyAsset(@)]
        ELSE d5

\* Database._run_schema_validation: every process that opens the store runs the
\* migration
RunMigration ==
    /\ mig.runs < MigRuns
    /\ mig' = [db |-> MigrateDatabase(mig.db), runs |-> mig.runs + 1,
               first |-> IF mig.runs = 0 THEN MigrateDatabase(mig.db) ELSE mig.first]
    /\ UNCHANGED <<evalVars, workerVars, cycleVars, schedVars, genVars, runVars,
                   calibVars, summaryVars, extraVars>>

\* forecasts rows of a database of the current schema
CurrentRows ==
    [asset : {"USD", "Gold"}, horizon_minutes : {NULL, HorizonTicks},
     created_at : {NULL, EMPTY, 0}, forecast_time : {NULL, 0},
     evaluated_at : {NULL, 3}, evaluation_time : {NULL, EMPTY},
     due_at : {NULL, 2},
     direction : {NoText, "", "UP"}, expected_direction : {NoText, "down"},
     confidence : {NULL, 500}, confidence_level : {NULL, 600},
     evaluation_result : {NoText, "hit"}, is_accurate : {NULL, 1},
     status : {NoText, "", "active"}]

\* forecasts rows of a database of the legacy schema: the new columns are absent
LegacyRows ==
    [asset : {"USD", "Gold"}, horizon_minutes : {NULL, HorizonTicks},
     created_at : {NULL}, forecast_time : {NULL, EMPTY, 0},
     evaluated_at : {NULL}, evaluation_time : {NULL, EMPTY, 3},
     due_at : {NULL},
     direction : {NoText}, expected_direction : {NoText, "up", "sideways"},
     confidence : {NULL}, confidence_level : {NULL, 600},
     evaluation_result : {NoText}, is_accurate : {NULL, 0, 1, 2},
     status : {NoText}]

\* the schemas a database file found at startup can have
MigSchemas == {[cols |-> LegacyForecastCols, rows |-> LegacyRows],
               [cols |-> RequiredForecastCols, rows |-> CurrentRows]}

\* the worker_status rows it can hold
MigStatusRows == [last_heartbeat : {NULL, EMPTY, 3}, last_heartbeat_at : {NULL, 3}]

InitMig ==
    /\ InitStore
    /\ wpc = [w \in Workers |-> "new"]
    /\ slRunning = FALSE
    /\ uipc = [s \in Sessions |-> "idle"]
    /\ tz = 0
    /\ news = <<>>
    /\ gen = [r \in GenRuns |-> IdleGen]
    /\ conf = NoConf
    /\ cyclesArg = NULL
    /\ bucket = NoRow
    /\ stream = NoStream
    /\ got = NoRead
    /\ summary = <<>>
    /\ score = NoScore
    /\ InitExtra
    /\ \E t \in {{"forecasts"}, {"news", "forecasts"},
                 {"news", "forecasts", "worker_status"}} :
       \E c \in MigSchemas :
       \E w \in MigStatusRows :
       \E r \in c.rows :
           /\ "worker_status" \notin t =>
                  w = [last_heartbeat |-> NULL, last_heartbeat_at |-> NULL]
           /\ mig = [db |-> [tables |-> t, triggers |-> {}, fcols |-> c.cols,
                             ncols |-> {"id"}, ws |-> w, f |-> r],
                     runs |-> 0,
                     first |-> <<>>]
    /\ holds = [w \in Workers |-> FALSE]
    /\ lockMeta = "none"
    /\ hbThread = [w \in Workers |-> FALSE]
    /\ storeWrites = [w \in Workers |-> {}]
    /\ stagesRun = [w \in Workers |-> 0]
    /\ attempts = [w \in Workers |-> 0]
    /\ heldAtStart = [w \in Workers |-> FALSE]
    /\ cycle = [w \in Workers |-> 0]
    /\ stage = [w \in Workers |-> 0]
    /\ live = [last_heartbeat |-> NULL, last_cycle_seconds |-> NULL,
               last_successful_cycle_at |-> NULL, last_error |-> NoError,
               updated_at |-> NULL]
    /\ started = [w \in Workers |-> <<>>]
    /\ inflight = [w \in Workers |-> {}]
    /\ lastOutcome = [w \in Workers |-> NoOutcomeYet]
    /\ cyclesDone = [w \in Workers |-> 0]
    /\ cycleEnd = [w \in Workers |-> NoCycleEnd]

NextMig == RunMigration

SpecMig == InitMig /\ [][NextMig]_vars

\* ------------------------------------------------------ is_worker_alive
\* the worker_status rows a store can hold: none, the fresh row of init_database,
\* a row update_worker_heartbeat wrote (both columns, or last_heartbeat alone on a
\* store without last_heartbeat_at), and rows with '' or a text that is no timestamp
StatusRows ==
    {[row |-> FALSE, last_heartbeat |-> NULL, last_heartbeat_at |-> NULL]}
    \cup {[row |-> TRUE, last_heartbeat |-> h, last_heartbeat_at |-> a] :
              h \in {NULL, EMPTY, GARBLED} \cup (0..AliveBeats),
              a \in {NULL, EMPTY, GARBLED} \cup (0..AliveBeats)}

\* is_worker_alive is called
CallIsWorkerAlive ==
    /\ alive' = [alive EXCEPT !.at = now,
                              !.result = IF IsWorkerAliveRow(alive.status, alive.fails, now,
                                                             alive.max_stale)
                                         THEN "true" ELSE "false"]
    /\ UNCHANGED <<stats, swThreads, ing>>
    /\ UNCHANGED <<evalVars, workerVars, cycleVars, schedVars, genVars, runVars,
                   calibVars, summaryVars, migVars>>

InitAlive ==
    /\ now = 0
    /\ forecasts = <<>>
    /\ prices = <<>>
    /\ calibration = [k \in BucketKeys |-> [n_total |-> 0, n_hit |-> 0]]
    /\ pass = [p \in Passes |-> IdlePass]
    /\ evalCalls = <<>>
    /\ calibCalls = <<>>
    /\ wpc = [w \in Workers |-> "new"]
    /\ slRunning = FALSE
    /\ uipc = [s \in Sessions |-> "idle"]
    /\ tz = 0
    /\ news = <<>>
    /\ gen = [r \in GenRuns |-> IdleGen]
    /\ conf = NoConf
    /\ cyclesArg = NULL
    /\ bucket = NoRow
    /\ stream = NoStream
    /\ got = NoRead
    /\ summary = <<>>
    /\ score = NoScore
    /\ mig = NoMig
    /\ \E st \in StatusRows, f \in BOOLEAN, m \in 1..2 :
           /\ Truthy(st.last_heartbeat) => st.last_heartbeat_at \in {st.last_heartbeat, NULL}
           /\ alive = [NoAlive EXCEPT !.status = st, !.fails = f, !.max_stale = m]
    /\ stats = NoStats
    /\ swThreads = NoThreads
    /\ ing = [r \in IngRuns |-> IdleIng]
    /\ holds = [w \in Workers |-> FALSE]
    /\ lockMeta = "none"
    /\ hbThread = [w \in Workers |-> FALSE]
    /\ storeWrites = [w \in Workers |-> {}]
    /\ stagesRun = [w \in Workers |-> 0]
    /\ attempts = [w \in Workers |-> 0]
    /\ heldAtStart = [w \in Workers |-> FALSE]
    /\ cycle = [w \in Workers |-> 0]
    /\ stage = [w \in Workers |-> 0]
    /\ live = [last_heartbeat |-> NULL, last_cycle_seconds |-> NULL,
               last_successful_cycle_at |-> NULL, last_error |-> NoError,
               updated_at |-> NULL]
    /\ started = [w \in Workers |-> <<>>]
    /\ inflight = [w \in Workers |-> {}]
    /\ lastOutcome = [w \in Workers |-> NoOutcomeYet]
    /\ cyclesDone = [w \in Workers |-> 0]
    /\ cycleEnd = [w \in Workers |-> NoCycleEnd]

NextAlive == Tick \/ CallIsWorkerAlive

SpecAlive == InitAlive /\ [][NextAlive]_vars

\* ------------------------------------------------------ due_at of a forecast
\* forecasts rows found at startup without a due_at: rows of the legacy schema
\* (forecast_time, no created_at) and rows whose due_at was never written
DueRows ==
    [asset : {"Gold"}, horizon_minutes : {NULL, HorizonTicks},
     created_at : {NULL, EMPTY, 0, 1}, forecast_time : {NULL, EMPTY, 0},
     evaluated_at : {NULL}, evaluation_time : {NULL},
     due_at : {NULL, EMPTY},
     direction : {NoText}, expected_direction : {"up"},
     confidence : {NULL}, confidence_level : {NULL},
     evaluation_result : {NoText}, is_accurate : {NULL},
     status : {NoText}]

InitDue ==
    /\ now = 0
    /\ forecasts = <<>>
    /\ prices = <<>>
    /\ calibration = [k \in BucketKeys |-> [n_total |-> 0, n_hit |-> 0]]
    /\ pass = [p \in Passes |-> IdlePass]
    /\ evalCalls = <<>>
    /\ calibCalls = <<>>
    /\ wpc = [w \in Workers |-> "new"]
    /\ slRunning = FALSE
    /\ uipc = [s \in Sessions |-> "idle"]
    /\ tz \in {0, 1}
    /\ news = <<>>
    /\ gen = [r \in GenRuns |-> IdleGen]
    /\ conf = NoConf
    /\ cyclesArg = NULL
    /\ bucket = NoRow
    /\ stream = NoStream
    /\ got = NoRead
    /\ summary = <<>>
    /\ score = NoScore
    /\ \E r \in DueRows :
           mig = [db |-> [tables |-> {"news", "forecasts"}, triggers |-> {},
                          fcols |-> LegacyForecastCols, ncols |-> {"id"},
                          ws |-> [last_heartbeat |-> NULL, last_heartbeat_at |-> NULL],
                          f |-> r],
                  runs |-> 0,
                  first |-> <<>>]
    /\ InitExtra
    /\ holds = [w \in Workers |-> FALSE]
    /\ lockMeta = "none"
    /\ hbThread = [w \in Workers |-> FALSE]
    /\ storeWrites = [w \in Workers |-> {}]
    /\ stagesRun = [w \in Workers |-> 0]
    /\ attempts = [w \in Workers |-> 0]
    /\ heldAtStart = [w \in Workers |-> FALSE]
    /\ cycle = [w \in Workers |-> 0]
    /\ stage = [w \in Workers |-> 0]
    /\ live = [last_heartbeat |-> NULL, last_cycle_seconds |-> NULL,
               last_successful_cycle_at |-> NULL, last_error |-> NoError,
               updated_at |-> NULL]
    /\ started = [w \in Workers |-> <<>>]
    /\ inflight = [w \in Workers |-> {}]
    /\ lastOutcome = [w \in Workers |-> NoOutcomeYet]
    /\ cyclesDone = [w \in Workers |-> 0]
    /\ cycleEnd = [w \in Workers |-> NoCycleEnd]

NextDue ==
    \/ Tick
    \/ RunMigration
    \/ \E d \in {"UP", "DOWN"} : InsertForecast("Gold", d, 1000, DueForecasts)

SpecDue == InitDue /\ [][NextDue]_vars

\* ------------------------------------------------------ calibration_stats rows
\* news_category and news_sentiment of a forecast row; NoText is NULL: the columns
\* are nullable and rows of a store created before them hold NULL
StatCategories == {NoText, "economy"}
StatSentiments == {NoText, "positive"}

\* COALESCE(x, '')
Coalesce(x) == IF x = NoText THEN "" ELSE x

\* WHERE asset = ? AND horizon_minutes = ? AND COALESCE(news_category,'') =
\* COALESCE(?, '') AND COALESCE(news_sentiment,'') = COALESCE(?, '')
SelectStats(rows, asset, horizon, category, sentiment) ==
    {i \in 1..Len(rows) :
        /\ rows[i].asset = asset
        /\ rows[i].horizon_minutes = horizon
        /\ Coalesce(rows[i].news_category) = Coalesce(category)
        /\ Coalesce(rows[i].news_sentiment) = Coalesce(sentiment)}

\* two rows collide on PRIMARY KEY (asset, horizon_minutes, news_category,
\* news_sentiment): SQLite compares the columns with =, and a NULL equals nothing
KeyConflict(a, b) ==
    /\ a.asset = b.asset
    /\ a.horizon_minutes = b.horizon_minutes
    /\ a.news_category # NoText /\ a.news_category = b.news_category
    /\ a.news_sentiment # NoText /\ a.news_sentiment = b.news_sentiment

\* INSERT OR REPLACE: the colliding rows are deleted, the new row is added
InsertOrReplace(rows, row) ==
    Append(SelectSeq(rows, LAMBDA r : ~KeyConflict(r, row)), row)

\* the highest update number among the rows i of a set
LatestVer(rows, I) == CHOOSE v \in {rows[i].ver : i \in I} : \A i \in I : rows[i].ver <= v

\* what a fetchone() on the rows I yields: no row when there is none, else one of
\* them; the statement has no ORDER BY, so which one is up to the query plan
ReadOf(rows, I, by, i) ==
    IF I = {} THEN [by |-> by, ver |-> NULL, latest |-> NULL]
    ELSE [by |-> by, ver |-> rows[i].ver, latest |-> LatestVer(rows, I)]

\* _update_calibration_stats for a forecast of the bucket with an outcome
UpdateStats(asset, horizon, category, sentiment, hit) ==
    /\ stats.updates < StatUpdates
    /\ LET I == SelectStats(stats.rows, asset, horizon, category, sentiment)
       IN  \E i \in I \cup {0} :
               /\ i = 0 <=> I = {}
               /\ LET n_total == IF I = {} THEN 0 ELSE stats.rows[i].n_total
                      n_hit == IF I = {} THEN 0 ELSE stats.rows[i].n_hit
                      row == [asset |-> asset, horizon_minutes |-> horizon,
                              news_category |-> category, news_sentiment |-> sentiment,
                              n_total |-> n_total + 1,
                              n_hit |-> n_hit + (IF hit THEN 1 ELSE 0),
                              ver |-> stats.updates + 1]
                  IN  stats' = [rows |-> InsertOrReplace(stats.rows, row),
                                updates |-> stats.updates + 1,
                                read |-> ReadOf(stats.rows, I, "update", i)]
    /\ UNCHANGED <<alive, swThreads, ing>>
    /\ UNCHANGED <<evalVars, workerVars, cycleVars, schedVars, genVars, runVars,
                   calibVars, summaryVars, migVars>>

\* get_calibration_weight for a signal of the bucket
ReadStats(asset, horizon, category, sentiment) ==
    /\ LET I == SelectStats(stats.rows, asset, horizon, category, sentiment)
       IN  \E i \in I \cup {0} :
               /\ i = 0 <=> I = {}
               /\ stats' = [stats EXCEPT !.read = ReadOf(stats.rows, I, "weight", i)]
    /\ UNCHANGED <<alive, swThreads, ing>>
    /\ UNCHANGED <<evalVars, workerVars, cycleVars, schedVars, genVars, runVars,
                   calibVars, summaryVars, migVars>>

InitStats ==
    /\ now = 0
    /\ forecasts = <<>>
    /\ prices = <<>>
    /\ calibration = [k \in BucketKeys |-> [n_total |-> 0, n_hit |-> 0]]
    /\ pass = [p \in Passes |-> IdlePass]
    /\ evalCalls = <<>>
    /\ calibCalls = <<>>
    /\ wpc = [w \in Workers |-> "new"]
    /\ slRunning = FALSE
    /\ uipc = [s \in Sessions |-> "idle"]
    /\ tz = 0
    /\ news = <<>>
    /\ gen = [r \in GenRuns |-> IdleGen]
    /\ conf = NoConf
    /\ cyclesArg = NULL
    /\ bucket = NoRow
    /\ stream = NoStream
    /\ got = NoRead
    /\ summary = <<>>
    /\ score = NoScore
    /\ mig = NoMig
    /\ InitExtra
    /\ holds = [w \in Workers |-> FALSE]
    /\ lockMeta = "none"
    /\ hbThread = [w \in Workers |-> FALSE]
    /\ storeWrites = [w \in Workers |-> {}]
    /\ stagesRun = [w \in Workers |-> 0]
    /\ attempts = [w \in Workers |-> 0]
    /\ heldAtStart = [w \in Workers |-> FALSE]
    /\ cycle = [w \in Workers |-> 0]
    /\ stage = [w \in Workers |-> 0]
    /\ live = [last_heartbeat |-> NULL, last_cycle_seconds |-> NULL,
               last_successful_cycle_at |-> NULL, last_error |-> NoError,
               updated_at |-> NULL]
    /\ started = [w \in Workers |-> <<>>]
    /\ inflight = [w \in Workers |-> {}]
    /\ lastOutcome = [w \in Workers |-> NoOutcomeYet]
    /\ cyclesDone = [w \in Workers |-> 0]
    /\ cycleEnd = [w \in Workers |-> NoCycleEnd]

NextStats ==
    \/ \E c \in StatCategories, s \in StatSentiments, hit \in BOOLEAN :
           UpdateStats("Gold", HorizonTicks, c, s, hit)
    \/ \E c \in StatCategories, s \in StatSentiments :
           ReadStats("Gold", HorizonTicks, c, s)

SpecStats == InitStats /\ [][NextStats]_vars

\* ------------------------------------------------------ StreamlitWorker.start / stop
\* the singleton of __new__: one object, so one running flag (slRunning) and one
\* list of the loop threads it created (swThreads)
\* StreamlitWorker.start under the class lock: a second call while running is set
\* returns; else the flag is set and a new loop thread starts
SwStart ==
    /\ ~slRunning
    /\ Len(swThreads) < SwThreads
    /\ slRunning' = TRUE
    /\ swThreads' = Append(swThreads, [pc |-> "check"])
    /\ UNCHANGED <<alive, stats, ing, uipc>>
    /\ UNCHANGED <<evalVars, workerVars, cycleVars, genVars, runVars,
                   calibVars, summaryVars, migVars>>

\* StreamlitWorker.stop: clears the flag, then waits at most 5 s for the thread
SwStop ==
    /\ slRunning
    /\ slRunning' = FALSE
    /\ UNCHANGED <<alive, stats, swThreads, ing, uipc>>
    /\ UNCHANGED <<evalVars, workerVars, cycleVars, genVars, runVars,
                   calibVars, summaryVars, migVars>>

\* a loop thread moves to pc
SwMove(i, pc) ==
    /\ swThreads' = [swThreads EXCEPT ![i].pc = pc]
    /\ UNCHANGED <<alive, stats, ing>>
    /\ UNCHANGED <<evalVars, workerVars, cycleVars, schedVars, genVars, runVars,
                   calibVars, summaryVars, migVars>>

\* _worker_loop, 'while self.running': enter a cycle or return
SwLoopCheck(i) ==
    /\ swThreads[i].pc = "check"
    /\ SwMove(i, IF slRunning THEN "cycle" ELSE "exited")

\* _worker_loop: the stages of a cycle ran; sleep until the next cycle
SwLoopCycle(i) ==
    /\ swThreads[i].pc = "cycle"
    /\ SwMove(i, "sleep")

\* _worker_loop: time.sleep returns
SwLoopWake(i) ==
    /\ swThreads[i].pc = "sleep"
    /\ SwMove(i, "check")

InitSw ==
    /\ now = 0
    /\ forecasts = <<>>
    /\ prices = <<>>
    /\ calibration = [k \in BucketKeys |-> [n_total |-> 0, n_hit |-> 0]]
    /\ pass = [p \in Passes |-> IdlePass]
    /\ evalCalls = <<>>
    /\ calibCalls = <<>>
    /\ wpc = [w \in Workers |-> "new"]
    /\ slRunning = FALSE
    /\ uipc = [s \in Sessions |-> "idle"]
    /\ tz = 0
    /\ news = <<>>
    /\ gen = [r \in GenRuns |-> IdleGen]
    /\ conf = NoConf
    /\ cyclesArg = NULL
    /\ bucket = NoRow
    /\ stream = NoStream
    /\ got = NoRead
    /\ summary = <<>>
    /\ score = NoScore
    /\ mig = NoMig
    /\ InitExtra
    /\ holds = [w \in Workers |-> FALSE]
    /\ lockMeta = "none"
    /\ hbThread = [w \in Workers |-> FALSE]
    /\ storeWrites = [w \in Workers |-> {}]
    /\ stagesRun = [w \in Workers |-> 0]
    /\ attempts = [w \in Workers |-> 0]
    /\ heldAtStart = [w \in Workers |-> FALSE]
    /\ cycle = [w \in Workers |-> 0]
    /\ stage = [w \in Workers |-> 0]
    /\ live = [last_heartbeat |-> NULL, last_cycle_seconds |-> NULL,
               last_successful_cycle_at |-> NULL, last_error |-> NoError,
               updated_at |-> NULL]
    /\ started = [w \in Workers |-> <<>>]
    /\ inflight = [w \in Workers |-> {}]
    /\ lastOutcome = [w \in Workers |-> NoOutcomeYet]
    /\ cyclesDone = [w \in Workers |-> 0]
    /\ cycleEnd = [w \in Workers |-> NoCycleEnd]

NextSw ==
    \/ SwStart
    \/ SwStop
    \/ \E i \in 1..Len(swThreads) : SwLoopCheck(i) \/ SwLoopCycle(i) \/ SwLoopWake(i)

SpecSw == InitSw /\ [][NextSw]_vars

\* ------------------------------------------------------ news ingestion
\* _fetch_from_source, lines 78-93: an entry with link url is collected; it is
\* dropped when has_news_url finds the url, and kept when the check raises
IngFetch(r, url, checkFails) ==
    /\ ing[r].pc = "idle"
    /\ ing' = [ing EXCEPT ![r] = IF ~checkFails /\ HasNewsUrl(news, url)
                                  THEN [pc |-> "idle", url |-> url, result |-> "filtered"]
                                  ELSE [pc |-> "insert", url |-> url, result |-> "none"]]
    /\ UNCHANGED <<alive, stats, swThreads>>
    /\ UNCHANGED <<evalVars, workerVars, cycleVars, schedVars, genVars, runVars,
                   calibVars, summaryVars, migVars>>

\* _process_news, lines 346-356: insert_news on the collected item; None counts as
\* a skipped duplicate
IngInsert(r) ==
    /\ ing[r].pc = "insert"
    /\ Len(news) < IngNews
    /\ LET res == InsertNewsRow(news, NewNews(now, ing[r].url))
       IN  /\ news' = res.N
           /\ ing' = [ing EXCEPT ![r] = [pc |-> "idle", url |-> ing[r].url,
                                         result |-> IF res.id = NULL THEN "duplicate"
                                                    ELSE "inserted"]]
    /\ UNCHANGED <<alive, stats, swThreads>>
    /\ UNCHANGED <<tz, gen, conf>>
    /\ UNCHANGED <<evalVars, workerVars, cycleVars, schedVars, runVars,
                   calibVars, summaryVars, migVars>>

InitIng ==
    /\ now = 0
    /\ forecasts = <<>>
    /\ prices = <<>>
    /\ calibration = [k \in BucketKeys |-> [n_total |-> 0, n_hit |-> 0]]
    /\ pass = [p \in Passes |-> IdlePass]
    /\ evalCalls = <<>>
    /\ calibCalls = <<>>
    /\ wpc = [w \in Workers |-> "new"]
    /\ slRunning = FALSE
    /\ uipc = [s \in Sessions |-> "idle"]
    /\ tz = 0
    /\ news = <<>>
    /\ gen = [r \in GenRuns |-> IdleGen]
    /\ conf = NoConf
    /\ cyclesArg = NULL
    /\ bucket = NoRow
    /\ stream = NoStream
    /\ got = NoRead
    /\ summary = <<>>
    /\ score = NoScore
    /\ mig = NoMig
    /\ InitExtra
    /\ holds = [w \in Workers |-> FALSE]
    /\ lockMeta = "none"
    /\ hbThread = [w \in Workers |-> FALSE]
    /\ storeWrites = [w \in Workers |-> {}]
    /\ stagesRun = [w \in Workers |-> 0]
    /\ attempts = [w \in Workers |-> 0]
    /\ heldAtStart = [w \in Workers |-> FALSE]
    /\ cycle = [w \in Workers |-> 0]
    /\ stage = [w \in Workers |-> 0]
    /\ live = [last_heartbeat |-> NULL, last_cycle_seconds |-> NULL,
               last_successful_cycle_at |-> NULL, last_error |-> NoError,
               updated_at |-> NULL]
    /\ started = [w \in Workers |-> <<>>]
    /\ inflight = [w \in Workers |-> {}]
    /\ lastOutcome = [w \in Workers |-> NoOutcomeYet]
    /\ cyclesDone = [w \in Workers |-> 0]
    /\ cycleEnd = [w \in Workers |-> NoCycleEnd]

NextIng ==
    \/ Tick
    \/ \E r \in IngRuns, u \in 1..IngUrls, f \in BOOLEAN : IngFetch(r, u, f)
    \/ \E r \in IngRuns : IngInsert(r)

SpecIng == InitIng /\ [][NextIng]_vars

\* ======================================================================
\* Claims
\* ======================================================================
Terminal == {"evaluated", "expired"}

NoOutcome(f) == f.actual_price = NULL /\ f.direction_correct = NULL /\ f.evaluated_at = NULL

\* pass p finishes with forecast id in this step (skipped, expired or evaluated)
Processed(p, id) ==
    /\ pass[p].due # <<>>
    /\ Head(pass[p].due) = id
    /\ pass'[p].due = Tail(pass[p].due)

\* C1: under every interleaving of evaluation passes, update_forecast_evaluation is
\* applied to a forecast at most once and its calibration bucket is updated at
\* most once on its behalf.
C1_EvaluatedAtMostOnce ==
    \A id \in DOMAIN forecasts : evalCalls[id] <= 1 /\ calibCalls[id] <= 1

\* two calls of evaluate_due_forecasts_backfill(limit) in sequence from the current
\* store, with nothing in between: the second changes nothing and reports 0
SecondCallIsNoOp(limit) ==
    LET r1 == EvaluateDueForecastsBackfill(forecasts, calibration, prices,
                                           MaxWindowTicks, limit, now)
        r2 == EvaluateDueForecastsBackfill(r1.F, r1.C, prices, MaxWindowTicks, limit, now)
    IN  r2.F = r1.F /\ r2.C = r1.C /\ r2.evaluated = 0

C3_StatusOnlyForward ==
    [][\A id \in DOMAIN forecasts :
          forecasts[id].status \in Terminal
              => forecasts'[id].status = forecasts[id].status]_vars

\* C4: every forecast has status active, evaluated or expired; an evaluated forecast
\* carries an outcome; an expired forecast carries none.
C4_LifecycleTotality ==
    \A id \in DOMAIN forecasts :
        LET f == forecasts[id]
        IN  /\ f.status \in {"active", "evaluated", "expired"}
            /\ f.status = "evaluated" =>
                   /\ f.actual_price # NULL
                   /\ f.direction_correct # NULL
                   /\ f.evaluation_quality \in {"exact", "approx"}
                   /\ f.evaluated_at # NULL
            /\ f.status = "expired" => NoOutcome(f)

NoSnapshotAfterDue(f) ==
    \A i \in PricesOf(prices, f.asset) : prices[i].timestamp < f.due_at

\* C5: a due forecast for whose asset no snapshot at or after due_at exists is never
\* marked evaluated; it stays active while at most the expiry grace has passed since
\* due_at, and a pass that handles it later marks it expired with no outcome.
C5_NoPostDueSnapshot ==
    [][\A id \in DOMAIN forecasts :
          LET f == forecasts[id]  f2 == forecasts'[id]
          IN  NoSnapshotAfterDue(f) /\ f.status = "active" =>
                  /\ f2.status # "evaluated"
                  /\ \A p \in Passes : Processed(p, id) =>
                         IF now - f.due_at > Grace(MaxWindowTicks)
                         THEN f2.status = "expired" /\ NoOutcome(f2)
                         ELSE f2.status = "active"]_vars

PostDue(f) == {i \in PricesOf(prices, f.asset) : prices[i].timestamp >= f.due_at}

\* snap is an earliest snapshot at or after due_at, exact iff inside the window
IsEarliestPostDue(f, snap) ==
    /\ \E i \in PostDue(f) :
           /\ \A j \in PostDue(f) : prices[i].timestamp <= prices[j].timestamp
           /\ snap.price = prices[i].price
           /\ snap.timestamp = prices[i].timestamp
    /\ snap.quality = IF snap.timestamp <= f.due_at + MaxWindowTicks THEN "exact" ELSE "approx"

\* snap is a latest snapshot of the asset, marked approx
IsLatestApprox(f, snap) ==
    /\ \E i \in PricesOf(prices, f.asset) :
           /\ \A j \in PricesOf(prices, f.asset) : prices[j].timestamp <= prices[i].timestamp
           /\ snap.price = prices[i].price
           /\ snap.timestamp = prices[i].timestamp
    /\ snap.quality = "approx"

C7_TerminalAfterGrace ==
    [][\A p \in Passes : \A id \in DOMAIN forecasts :
          (Processed(p, id) /\ now - forecasts[id].due_at > Grace(MaxWindowTicks))
              => forecasts'[id].status \in Terminal]_vars

\* C8: for an evaluated forecast with realized move m, UP is a hit iff m > 0.1,
\* DOWN iff m < -0.1, NEUTRAL iff |m| < 0.5, and direction_correct and
\* evaluation_result agree.
C8_DirectionCorrectness ==
    \A id \in DOMAIN forecasts :
        LET f  == forecasts[id]
            d  == f.actual_price - f.price_at_forecast
            p0 == f.price_at_forecast
        IN  f.status = "evaluated" =>
                /\ f.direction_correct \in {0, 1}
                /\ f.evaluation_result \in {"hit", "miss"}
                /\ f.evaluation_result = "hit" <=> f.direction_correct = 1
                /\ f.direction_correct = 1 <=>
                       \/ f.direction = "UP" /\ d * 1000 > p0
                       \/ f.direction = "DOWN" /\ d * 1000 < 0 - p0
                       \/ f.direction = "NEUTRAL" /\ d * 200 < p0 /\ d * 200 > 0 - p0

\* a NEUTRAL forecast counted as a hit although the move left the 0.1 % dead-zone
C8_Witness ==
    \E id \in DOMAIN forecasts :
        /\ forecasts[id].status = "evaluated"
        /\ forecasts[id].direction = "NEUTRAL"
        /\ forecasts[id].actual_direction = "UP"
        /\ forecasts[id].direction_correct = 1

\* C9: at most one process holds the instance lock; an acquire attempt succeeds
\* exactly when no other process holds the lock, so of two workers started together
\* one enters the cycle loop and the other returns from its first attempt without
\* ever running a stage.
C9_SingleInstance ==
    /\ [](/\ Cardinality({w \in Workers : holds[w]}) <= 1
          /\ \A w \in Workers :
                 /\ wpc[w] \in {"locked", "loop", "cycle", "join"} => holds[w]
                 /\ wpc[w] = "denied" =>
                        attempts[w] = 1 /\ stagesRun[w] = 0 /\ ~holds[w] /\ ~hbThread[w])
    /\ [][\A w \in Workers :
             attempts'[w] # attempts[w] =>
                 /\ (\A v \in Workers \ {w} : ~holds[v]) => wpc'[w] = "locked" /\ holds'[w]
                 /\ (\E v \in Workers \ {w} : holds[v]) => wpc'[w] = "denied"]_vars

\* one worker is inside a cycle holding the lock, the other was turned away at its
\* first attempt although both were constructed before either asked for the lock
C9_Witness ==
    \E w, v \in Workers :
        /\ wpc[w] \in {"cycle", "join"} /\ holds[w] /\ stagesRun[w] > 0
        /\ wpc[v] = "denied" /\ ~heldAtStart[v] /\ ~heldAtStart[w]

\* C10: a worker started while another process holds the lock exits without side
\* effects: no store write, no change of the lock file, no heartbeat thread.
C10_SecondWorkerSilent ==
    \A w \in Workers :
        (heldAtStart[w] /\ wpc[w] = "denied") =>
            storeWrites[w] = {} /\ lockMeta # w /\ ~hbThread[w]

\* the main thread of w returned from _run_step in this step
Joined(w) == lastOutcome'[w] # lastOutcome[w]

\* C12: a stage that raises or exceeds its timeout never prevents the later stages
\* of the cycle from being started and never ends the cycle loop: control returns
\* to the cycle after every stage, the stages started are always a prefix of the
\* cycle's stage list, and a cycle is left only by its end-of-cycle liveness update
\* with all stages started (or by a shutdown signal).
C12_StageIsolation ==
    [][\A w \in Workers :
          /\ Joined(w) => wpc'[w] = "cycle" /\ holds'[w]
          /\ started'[w] = SubSeq(StageOrder, 1, Len(started'[w]))
          /\ (wpc[w] \in {"cycle", "join"} /\ wpc'[w] \notin {"cycle", "join"}) =>
                 \/ "log_shutdown" \in storeWrites'[w]
                 \/ /\ started[w] = StageOrder
                    /\ cyclesDone'[w] = cyclesDone[w] + 1
                    /\ live'.last_successful_cycle_at = now]_vars

\* a worker has completed two cycles although a stage raised in one of them and
\* timed out in another
C12_Witness ==
    \E w \in Workers :
        /\ wpc[w] = "loop"
        /\ cycle[w] >= 2 /\ cyclesDone[w] = cycle[w]
        /\ live.last_error = <<"prices", "raise">>
        /\ "log_step_timeout" \in storeWrites[w]

\* C13: whenever a stage run by _run_step raises or times out, a log entry is
\* written and last_error describes that failure before the next stage starts.
C13_FailureRecorded ==
    [][\A w \in Workers :
          (Joined(w) /\ lastOutcome'[w].outcome \in {"raise", "timeout"}) =>
              /\ storeWrites'[w] \cap {"log_step_error", "log_step_timeout"} # {}
              /\ live'.last_error = <<lastOutcome'[w].stage, lastOutcome'[w].outcome>>]_vars

\* the stage order of the claim: generation before evaluation
ClaimedOrder == <<"news", "prices", "forecasts", "forecast_eval",
                  "trade_eval", "trade_monitor", "risk_limits">>

\* C14: in every cycle the stages are started in the order news, prices, forecast
\* generation, forecast evaluation, trade evaluation, trade monitoring, risk limits.
C14_FixedStageOrder ==
    \A w \in Workers : started[w] = SubSeq(ClaimedOrder, 1, Len(started[w]))

\* C18: the instance lock is never released while one of the worker's stage
\* threads is still running; a shutdown signal lets the stage in flight finish or
\* time out first.
C18_GracefulShutdown ==
    [][\A w \in Workers : (holds[w] /\ ~holds'[w]) => inflight[w] = {}]_vars

\* C19: a periodic heartbeat (a write to the liveness record by the heartbeat
\* thread, with the worker's main thread standing still) stamps last_heartbeat and
\* leaves last_cycle_seconds, last_successful_cycle_at and last_error unchanged.
C19_HeartbeatOnly ==
    [][((\A w \in Workers : wpc'[w] = wpc[w]) /\ live' # live) =>
           /\ live'.last_heartbeat = now
           /\ live'.last_cycle_seconds = live.last_cycle_seconds
           /\ live'.last_successful_cycle_at = live.last_successful_cycle_at
           /\ live'.last_error = live.last_error]_vars

\* a heartbeat written by the heartbeat thread after the end of the last cycle, with
\* a cycle duration and an error on record
C19_Witness ==
    \E w \in Workers :
        /\ hbThread[w] /\ wpc[w] = "loop"
        /\ cyclesDone[w] >= 1 /\ cycle[w] = cyclesDone[w]
        /\ live.last_heartbeat > live.last_successful_cycle_at
        /\ live.last_cycle_seconds # NULL
        /\ live.last_error # NoError

ActiveLoops ==
    {w \in Workers : wpc[w] \in {"loop", "cycle", "join"}}
        \cup (IF slRunning THEN {"streamlit"} ELSE {})

\* C11: after any sequence of ensure_worker_running calls and worker.py launches at
\* most one scheduler loop is active: never a WorkerProcess cycle loop together
\* with the StreamlitWorker loop, never two of either.
C11_SingleScheduler == Cardinality(ActiveLoops) <= 1

\* C15: at insertion every forecast's due_at is strictly later than the current
\* time as get_forecasts_due reads it (the store's UTC now), whatever the offset of
\* the process's local clock, so the forecast is not due in the cycle that
\* created it.
C15_DueInFuture ==
    [][\A id \in DOMAIN forecasts' :
          id \notin DOMAIN forecasts =>
              forecasts'[id].due_at > now /\ ~IsDue(forecasts'[id], now)]_vars

\* C16: the store holds at most one forecast per (news_id, asset, horizon_key) for
\* every non-null news_id.
C16_OneForecastPerKey ==
    \A i, j \in DOMAIN forecasts :
        (/\ forecasts[i].news_id # NULL
         /\ forecasts[i].news_id = forecasts[j].news_id
         /\ forecasts[i].asset = forecasts[j].asset
         /\ forecasts[i].horizon_key = forecasts[j].horizon_key) => i = j

\* C17: every forecast _create_forecast hands to insert_forecast has a confidence
\* of at least 25 and at most 85 percent, whatever the analysis confidence, the
\* impact level, the sentiment and the correlation entry.
C17_ConfidenceBounds ==
    conf.confidence # NULL =>
        /\ MinConfidenceAllowed <= conf.confidence
        /\ conf.confidence <= MaxConfidenceAllowed

\* a forecast whose uncapped confidence lies above the upper bound was created
C17_Witness ==
    /\ conf.confidence = MaxConfidenceAllowed
    /\ conf.base > MaxConfidenceAllowed
    /\ conf.correlation = <<>>

\* C21: run(cycles = N) executes exactly N cycles for every N >= 0: it never
\* begins a cycle beyond the N-th, and when it has returned N cycles are
\* complete, the heartbeat thread is stopped and the lock is released.
C21_ExactlyNCycles ==
    \A w \in SchedWorkers :
        cyclesArg # NULL =>
            /\ cycle[w] <= cyclesArg
            /\ wpc[w] = "exited" =>
                   /\ cyclesDone[w] = cyclesArg
                   /\ ~hbThread[w]
                   /\ ~holds[w]

\* an outcome was recorded into the bucket
Recorded == stream'.n = stream.n + 1

\* C22 as stated: every bucket has 0 <= rolling_accuracy <= 100 and
\* weight_multiplier equal to clamp(0.75 + 0.5 * rolling_accuracy / 100, 0.6, 1.4),
\* and every update of an existing bucket sets rolling_accuracy to
\* 0.95 * previous + 0.05 * (100 if hit else 0).
C22_ExactEwma ==
    /\ [](bucket.rolling_accuracy # NULL =>
            /\ 0 <= bucket.rolling_accuracy
            /\ bucket.rolling_accuracy <= 100 * RollScale
            /\ 20 * bucket.weight_multiplier =
                   Max2(20 * WeightMin,
                        Min2(20 * WeightBase + bucket.rolling_accuracy, 20 * WeightMax)))
    /\ [][(Recorded /\ bucket.rolling_accuracy # NULL) =>
              100 * bucket'.rolling_accuracy =
                  95 * bucket.rolling_accuracy + 5 * InstantAcc(stream'.last)]_vars

\* C22 (amended): every bucket has 0 <= rolling_accuracy <= 100 and
\* 0.6 <= weight_multiplier <= 1.4, with weight_multiplier within 0.00005 of
\* 0.75 + 0.5 * r / 100 for a value r within 0.0005 of rolling_accuracy; the first
\* outcome of a bucket sets rolling_accuracy to 100 if hit else 0, and every later
\* update sets it to 0.95 * previous + 0.05 * (100 if hit else 0) rounded to 3
\* decimals.
C22_RoundedEwma ==
    /\ [](bucket.rolling_accuracy # NULL =>
            /\ 0 <= bucket.rolling_accuracy
            /\ bucket.rolling_accuracy <= 100 * RollScale
            /\ WeightMin <= bucket.weight_multiplier
            /\ bucket.weight_multiplier <= WeightMax
            /\ AbsVal(20 * bucket.weight_multiplier
                      - (20 * WeightBase + bucket.rolling_accuracy)) <= 10)
    /\ [][Recorded =>
              IF bucket.rolling_accuracy = NULL
              THEN bucket'.rolling_accuracy = stream'.last * 100 * RollScale
              ELSE AbsVal(100 * bucket'.rolling_accuracy
                          - (95 * bucket.rolling_accuracy
                             + 5 * stream'.last * 100 * RollScale)) <= 50]_vars

\* a bucket whose stored weight is not the exact function of its stored accuracy
C22_Witness ==
    /\ bucket.rolling_accuracy # NULL
    /\ stream.n >= 2
    /\ 20 * bucket.weight_multiplier # 20 * WeightBase + bucket.rolling_accuracy

\* a stream of hits into a bucket that started at 50 percent
FromFifty == stream.kind = "hits" /\ stream.start = 50 * RollScale

\* C24: starting from a bucket whose rolling_accuracy is 50, ten consecutive hits
\* leave rolling_accuracy > 70; across those ten updates weight_multiplier
\* strictly increases and never exceeds 1.4.
C24_TenHits ==
    /\ []((FromFifty /\ stream.n = 10) => bucket.rolling_accuracy > 70 * RollScale)
    /\ []((FromFifty /\ stream.n <= 10) => bucket.weight_multiplier <= WeightMax)
    /\ [][(FromFifty /\ Recorded /\ stream'.n <= 10) =>
              bucket'.weight_multiplier > bucket.weight_multiplier]_vars

C24_Witness ==
    /\ FromFifty
    /\ stream.n = 10
    /\ bucket.n_hit = MidRow.n_hit + 10
    /\ bucket.rolling_accuracy > 70 * RollScale

\* the stream's hit rate times 100 is within 1 of rolling_accuracy
Converged ==
    /\ bucket.rolling_accuracy # NULL
    /\ stream.kind = "hits" => bucket.rolling_accuracy >= 99 * RollScale
    /\ stream.kind = "misses" => bucket.rolling_accuracy <= 1 * RollScale

C23_CountsMatch ==
    \A k \in BucketKeys :
        /\ calibration[k].n_hit <= calibration[k].n_total
        /\ calibration[k].n_total =
               Cardinality({id \in DOMAIN forecasts :
                               /\ BucketOf(forecasts[id]) = k
                               /\ forecasts[id].status = "evaluated"})

C27_SummaryAppendOnly ==
    /\ [][\A i \in DOMAIN summary :
              i \in DOMAIN summary' /\ summary'[i] = summary[i]]_vars
    /\ [][summary' # summary =>
              UNCHANGED <<forecasts, calibration, bucket, live, prices, news>>]_vars

\* two snapshots of the same asset and horizon taken at different times
C27_Witness ==
    /\ Len(summary) = 2
    /\ summary[1].asset = summary[2].asset
    /\ summary[1].horizon_minutes = summary[2].horizon_minutes
    /\ summary[1].computed_at < summary[2].computed_at

\* rows of score that have a stored confidence
Scored == SelectSeq(score.rows, LAMBDA r : r.confidence # NULL)

C29_MigrationIdempotent ==
    mig.runs >= 2 => mig.db = mig.first

\* a second run on a legacy database whose first run changed schema and rows
C29_Witness ==
    /\ mig.runs = 2
    /\ mig.db.f.created_at = 0
    /\ mig.db.f.due_at = HorizonTicks
    /\ mig.db.f.asset = "USD Index"
    /\ mig.db.f.status = "evaluated"
    /\ "created_at" \in mig.db.fcols
    /\ "trg_news_delete" \in mig.db.triggers

\* C30: once a news row is inserted, no pipeline stage changes any of its fields
\* except processed, and processed only goes from 0 to 1.
C30_SignalImmutable ==
    [][\A i \in DOMAIN news :
           /\ news'[i] = [news[i] EXCEPT !.processed = news'[i].processed]
           /\ news[i].processed => news'[i].processed]_vars

\* C31: a forecast whose due_at or horizon is malformed (empty, null or not
\* parseable) is never evaluated and never expired by an evaluation pass.
Malformed(f) ==
    \/ f.due_at \in {NULL, EMPTY, GARBLED}
    \/ f.horizon_minutes = NULL

C31_MalformedSkipped ==
    \A i \in DOMAIN forecasts :
        Malformed(forecasts[i]) =>
            /\ forecasts[i].status = "active"
            /\ forecasts[i].evaluated_at = NULL
            /\ evalCalls[i] = 0

\* C35: an error while evaluating one due forecast is counted and logged, leaves
\* the forecast active with no outcome written, and does not stop the pass from
\* evaluating the remaining due forecasts.
InPass(ps) == {ps.all[k] : k \in DOMAIN ps.all}

Isolated(ps) ==
    /\ ps.errors = Cardinality(ps.failed)
    /\ \A id \in ps.failed :
           /\ forecasts[id].status = "active"
           /\ NoOutcome(forecasts[id])
    /\ ps.pc = "done" =>
           \A id \in InPass(ps) \ ps.failed : forecasts[id].status = "evaluated"

Evaluable(i) ==
    /\ forecasts[i].status = "active"
    /\ PriceUsable(forecasts[i])
    /\ forecasts[i].due_at <= now
    /\ \E k \in DOMAIN prices :
           /\ prices[k].asset = forecasts[i].asset
           /\ prices[k].timestamp >= forecasts[i].due_at

C36_NoStarvation ==
    \A i \in 1..StarveForecasts :
        Evaluable(i) ~> (forecasts[i].status = "evaluated")

\* C39: every news item marked processed by _generate_forecasts has at least one
\* forecast row that references it.
C39_ProcessedHasForecast ==
    \A i \in DOMAIN news :
        news[i].processed => \E k \in DOMAIN forecasts : forecasts[k].news_id = i

\* an item was marked processed after an insert of one of its forecasts failed in
\* an earlier run
C39_Witness ==
    /\ \E i \in DOMAIN news : news[i].processed
    /\ Len(forecasts) = 3

\* C32: is_worker_alive(max_stale_seconds) returns True iff the liveness record
\* holds a heartbeat whose age is below max_stale_seconds, and returns False when
\* there is no record, no heartbeat or an unparseable heartbeat.
FreshHeartbeat ==
    /\ alive.status.row
    /\ \E h \in {alive.status.last_heartbeat, alive.status.last_heartbeat_at} :
           h >= 0 /\ alive.at - h < alive.max_stale

C32_AliveIffFresh ==
    alive.result # "none" =>
        /\ alive.result \in {"true", "false"}
        /\ alive.result = "true" <=> (~alive.fails /\ FreshHeartbeat)

\* a call that found a heartbeat just below the threshold
C32_Witness ==
    /\ alive.result = "true"
    /\ alive.max_stale = 2
    /\ alive.at - alive.status.last_heartbeat = 1

\* C33: every forecast created by Forecaster._create_forecast, and every forecast
\* whose missing due_at migrate_database backfilled, has
\* due_at = created_at + horizon_minutes.
C33_DueAtIsCreatedPlusHorizon ==
    /\ \A i \in 1..Len(forecasts) :
           /\ forecasts[i].created_at # NULL
           /\ forecasts[i].horizon_minutes # NULL
           /\ forecasts[i].due_at = forecasts[i].created_at + forecasts[i].horizon_minutes
    /\ ~BlankTime(mig.db.f.due_at) =>
           /\ mig.db.f.created_at >= 0
           /\ mig.db.f.horizon_minutes # NULL
           /\ mig.db.f.due_at = mig.db.f.created_at + mig.db.f.horizon_minutes

\* a created forecast next to a legacy row whose due_at the migration filled in
\* from forecast_time
C33_Witness ==
    /\ Len(forecasts) >= 1
    /\ mig.runs >= 1
    /\ mig.db.f.forecast_time = 0
    /\ mig.db.f.due_at = HorizonTicks

\* C34: after any sequence of outcome recordings calibration_stats holds at most
\* one row per bucket key (asset, horizon_minutes, category, sentiment), also when
\* category or sentiment is NULL, and _update_calibration_stats and
\* get_calibration_weight read the row the most recent update for that key wrote.
C34_OneRowPerKey ==
    /\ \A i, j \in 1..Len(stats.rows) :
           j \in SelectStats(stats.rows, stats.rows[i].asset, stats.rows[i].horizon_minutes,
                             stats.rows[i].news_category, stats.rows[i].news_sentiment)
               => i = j
    /\ stats.read.ver = stats.read.latest

\* C37: the scheduler loop ends only by a shutdown signal or by reaching the
\* requested cycle count; no failed store write of the loop itself (heartbeat,
\* liveness update, log entry, the writes of the cycle-level exception handler)
\* terminates WorkerProcess.run.
InLoop == {"loop", "cycle", "join"}

C37_LoopEndsOnlyByShutdownOrCount ==
    [][\A w \in SchedWorkers :
           (wpc[w] \in InLoop /\ wpc'[w] \notin InLoop) =>
               /\ wpc'[w] = "exited"
               /\ \/ "log_shutdown" \in storeWrites'[w]
                  \/ "log_exiting" \in storeWrites'[w]]_vars

\* C38: after any sequence of StreamlitWorker.start and StreamlitWorker.stop calls
\* at most one 'streamlit-worker' loop thread is executing cycles, even when start
\* is called again before a stopped loop has observed the stop.
C38_OneLoopThread ==
    Cardinality({i \in 1..Len(swThreads) : swThreads[i].pc = "cycle"}) <= 1

\* C40: insert_news stores at most one news row per URL: inserting an item whose
\* URL is already stored returns None and leaves the store unchanged, under any
\* interleaving of concurrent ingestion runs.
C40_OneRowPerUrl ==
    /\ [](\A i, j \in 1..Len(news) : news[i].url = news[j].url => i = j)
    /\ [][\A r \in IngRuns :
              (ing[r].pc = "insert" /\ ing'[r].pc = "idle" /\ HasNewsUrl(news, ing[r].url))
                  => (news' = news /\ ing'[r].result = "duplicate")]_vars

\* two runs collected the same link before either stored it; one insert was
\* rejected
C40_Witness ==
    /\ ing["worker"].result = "duplicate"
    /\ ing["streamlit"].result = "inserted"
    /\ ing["worker"].url = ing["streamlit"].url
    /\ Len(news) = 1

====
